---- MODULE Spec2Model ----
(***************************************************************************)
(* Model of the AI study assistant: the quiz recovery and the key-point    *)
(* parsing of llm_chains.py, the URL extraction of web_serach.py and the   *)
(* LangGraph pipeline of agent.py.                                         *)
(*                                                                         *)
(* Text is modelled as a sequence of tokens, a token standing for a run of *)
(* characters; len() of a text is the Len of its token sequence.  The two  *)
(* marks the messages start with are written "[ok] " and "[x] " here (the  *)
(* source uses a check mark and a cross).                                  *)
(***************************************************************************)
EXTENDS Naturals, Sequences, FiniteSets, TLC

VARIABLES
    pc,            \* position of the run: "idle", a node name, "END", "returned", "raised"
    state,         \* the channel values of the graph (the shared AgentState)
    node_out,      \* the state dict the node that ran last returned
    trace,         \* names of the nodes executed so far, in order
    raised,        \* the exceptions raised inside node bodies: [node, exc]
    written,       \* per node executed, the keys whose value it returned changed
    quiz_given,    \* the content each call of generate_quiz_questions was given
    llm,           \* outcomes of the generation calls so far: [chain, ok]
    web_searcher,  \* agent.web_searcher: "none" when no Tavily key was given
    shared,        \* whether a node receives the channel's own list object
    h_response,    \* quiz harness: the text the generation call returns
    h_count,       \* quiz harness: num_questions
    h_results,     \* quiz harness: what each call of quiz synthesis returned
    calls,         \* the collaborator calls load_content_node made: [fn, arg, ok]
    environ,       \* extractor harness: the environment variables that are set
    installed,     \* extractor harness: whether the firecrawl package imports
    url_extractor, \* extractor harness: the URLContentExtractor object
    extractions,   \* extractor harness: what each extract_from_url call did
    kp_text,       \* key-point harness: the text the generation call returns
    kp_num,        \* key-point harness: num_points
    kp_results,    \* key-point harness: what each extract_key_points call returned
    kp_stage,      \* key-point harness: what each run of the key-point node was given and returned
    tr_content,    \* truncation harness: the content of the study materials
    submissions,   \* truncation harness: what each request was given and sent on
    sc_text,       \* scanner harness: the text that is scanned
    sc_matches,    \* scanner harness: what each re.findall on sc_text returned
    callers,       \* two-run harness: per caller of run, its position, locals and state
    mlflow_tracker,\* two-run harness: the agent's MLflowTracker object
    mlflow_runs    \* two-run harness: the ids of the MLflow runs started so far

extract_vars == <<environ, installed, url_extractor, extractions>>
keypoint_vars == <<kp_text, kp_num, kp_results, kp_stage>>
truncate_vars == <<tr_content, submissions>>
scan_vars == <<sc_text, sc_matches>>
tworun_vars == <<callers, mlflow_tracker, mlflow_runs>>

vars == <<pc, state, node_out, trace, raised, written, quiz_given, llm, web_searcher, shared,
          h_response, h_count, h_results, calls, extract_vars, keypoint_vars,
          truncate_vars, scan_vars, tworun_vars>>

(***************************************************************************)
(* Bounds of the model.                                                    *)
(***************************************************************************)
MaxQ == 2          \* num_questions ranges over 1..MaxQ
MaxFrags == 4      \* a generated quiz text is made of at most MaxFrags fragments
MaxCalls == 2      \* quiz synthesis is called at most MaxCalls times on one text

Min(a, b) == IF a < b THEN a ELSE b

\* s[:n] for n >= 0
Take(s, n) == SubSeq(s, 1, Min(n, Len(s)))

RECURSIVE Flatten(_)
Flatten(ss) == IF ss = <<>> THEN <<>> ELSE Head(ss) \o Flatten(Tail(ss))

(***************************************************************************)
(* QuizQuestion (config.py).  A parsed JSON object is a function from its  *)
(* keys; the model validates as pydantic does: the five fields must be     *)
(* there, other keys are ignored, and the length of options is not looked  *)
(* at.                                                                     *)
(***************************************************************************)
QuizQuestionFields ==
    {"question", "options", "correct_answer", "explanation", "difficulty"}

\* QuizQuestion(**data): TRUE when the constructor returns, FALSE when it raises
QuizQuestionAccepts(data) == QuizQuestionFields \subseteq DOMAIN data

QuizQuestion(data) == [f \in QuizQuestionFields |-> data[f]]

(***************************************************************************)
(* The tokens of a generated quiz text:                                    *)
(*   "{" "}"   the two brace characters                                    *)
(*   "g"       prose: characters that are neither braces nor JSON          *)
(*   "q1" "q2" the members of a JSON object holding all five fields, with  *)
(*             four options                                                *)
(*   "o3"      the same with an options list of three entries              *)
(***************************************************************************)
Members(tok) ==
    CASE tok = "q1" ->
           [question |-> <<"What is q1?">>, options |-> <<"a", "b", "c", "d">>,
            correct_answer |-> "A", explanation |-> "because q1",
            difficulty |-> "easy"]
      [] tok = "q2" ->
           [question |-> <<"What is q2?">>, options |-> <<"e", "f", "g", "h">>,
            correct_answer |-> "B", explanation |-> "because q2",
            difficulty |-> "hard"]
      [] tok = "o3" ->
           [question |-> <<"What is o3?">>, options |-> <<"a", "b", "c">>,
            correct_answer |-> "C", explanation |-> "because o3",
            difficulty |-> "medium"]

MemberTokens == {"q1", "q2", "o3"}

IsBrace(c) == c \in {"{", "}"}

\* json.loads(match): TRUE when it returns, for a text that starts with "{" and
\* ends with "}": what is between must be nothing or one member list
JsonLoadsOk(match) ==
    LET inner == SubSeq(match, 2, Len(match) - 1)
    IN  \/ inner = <<>>
        \/ Len(inner) = 1 /\ inner[1] \in MemberTokens

JsonLoads(match) ==
    LET inner == SubSeq(match, 2, Len(match) - 1)
    IN  IF inner = <<>> THEN <<>> ELSE Members(inner[1])

\* re.findall(json_pattern, response, re.DOTALL), json_pattern being
\*   \{[^{}]*(?:\{[^{}]*\}[^{}]*)*\}
\* the index of the first brace of t at or after i, 0 when there is none
RECURSIVE NextBrace(_, _)
NextBrace(t, i) ==
    IF i > Len(t) THEN 0
    ELSE IF IsBrace(t[i]) THEN i
    ELSE NextBrace(t, i + 1)

\* j is the brace that follows [^{}]*: "}" ends the match, "{" must open a
\* group \{[^{}]*\} ; the index of the closing brace of the match, or 0
\* the pattern without its nested group, \{[^{}]*\}
MatchGroupsFlat(t, j) ==
    IF j = 0 THEN 0
    ELSE IF t[j] = "}" THEN j
    ELSE 0

RECURSIVE MatchGroups(_, _)
MatchGroups(t, j) ==
    IF j = 0 THEN 0
    ELSE IF t[j] = "}" THEN j
    ELSE LET k == NextBrace(t, j + 1)
         IN  IF k = 0 \/ t[k] # "}" THEN 0
             ELSE MatchGroups(t, NextBrace(t, k + 1))

\* the end of the match of json_pattern that starts at i, 0 when none does
MatchEnd(t, i) ==
    IF t[i] # "{" THEN 0 ELSE MatchGroups(t, NextBrace(t, i + 1))

RECURSIVE FindAllFrom(_, _)
FindAllFrom(t, i) ==
    IF i > Len(t) THEN <<>>
    ELSE LET e == MatchEnd(t, i)
         IN  IF e # 0 THEN <<SubSeq(t, i, e)>> \o FindAllFrom(t, e + 1)
             ELSE FindAllFrom(t, i + 1)

FindAll(t) == FindAllFrom(t, 1)

(***************************************************************************)
(* QuizGenerationChain (llm_chains.py)                                     *)
(***************************************************************************)
FallbackOptions ==
    << "Option A - Review the material for details",
       "Option B - Refer to key points",
       "Option C - Study the content carefully",
       "Option D - All of the above" >>

\* the QuizQuestion built in the loop of _create_fallback_questions, n = i+1
FallbackQuestion(n) ==
    [question |-> <<"Question ", n,
                    ": Based on the study material, what is an important concept to understand?">>,
     options |-> FallbackOptions,
     correct_answer |-> "D",
     explanation |-> "This is a placeholder question. Please review the study material.",
     difficulty |-> "medium"]

\* a fallback with its numbering kept across calls
CreateFallbackQuestionsNumberedOn(response, count) ==
    [i \in 1..count |-> FallbackQuestion(Len(h_results) * count + i)]

\* a fallback whose questions lack the fourth option
CreateFallbackQuestionsThreeOptions(response, count) ==
    [i \in 1..count |->
        [FallbackQuestion(i) EXCEPT !.options = SubSeq(FallbackOptions, 1, 3)]]

CreateFallbackQuestions(response, count) ==
    [i \in 1..count |-> FallbackQuestion(i)]

\* the loop over the matches: a match that json.loads or QuizQuestion rejects
\* is skipped by the bare except
RECURSIVE ParseMatches(_)
ParseMatches(ms) ==
    IF ms = <<>> THEN <<>>
    ELSE LET m == Head(ms)
         IN  IF JsonLoadsOk(m) /\ QuizQuestionAccepts(JsonLoads(m))
             THEN <<QuizQuestion(JsonLoads(m))>> \o ParseMatches(Tail(ms))
             ELSE ParseMatches(Tail(ms))

\* the parse without the padding of a short list
ParseQuestionsFromResponseUnpadded(response, expected_count) ==
    Take(ParseMatches(Take(FindAll(response), expected_count)), expected_count)

ParseQuestionsFromResponse(response, expected_count) ==
    LET matches == FindAll(response)
        questions == ParseMatches(Take(matches, expected_count))
        extended ==
            IF Len(questions) < expected_count
            THEN questions \o
                 CreateFallbackQuestions(response, expected_count - Len(questions))
            ELSE questions
    IN  Take(extended, expected_count)

QuizContentLimit == 3000

\* a truncation that also cuts a content of exactly limit characters
TruncateFromLimit(content, limit) ==
    IF Len(content) >= limit THEN SubSeq(content, 1, limit) \o <<"...">> ELSE content

\* content[:limit] + "..." when content is longer than limit
Truncate(content, limit) ==
    IF Len(content) > limit THEN SubSeq(content, 1, limit) \o <<"...">> ELSE content

\* generate_quiz_questions: reply is what chain.invoke does, [ok |-> TRUE,
\* text |-> ...] when it returns and [ok |-> FALSE, exc |-> ...] when it
\* raises; the exception leaves generate_quiz_questions
\* the content generate_quiz_questions puts into its prompt
QuizPromptContent(content) == Truncate(content, QuizContentLimit)

GenerateQuizQuestions(content, key_points, num_questions, difficulty, reply) ==
    LET prompt_content == QuizPromptContent(content)
    IN  IF reply.ok
        THEN [ok |-> TRUE,
              value |-> ParseQuestionsFromResponse(reply.text, num_questions)]
        ELSE [ok |-> FALSE, exc |-> reply.exc]

(***************************************************************************)
(* The quiz harness: quiz synthesis called, up to MaxCalls times, on one   *)
(* generated text and one num_questions.                                   *)
(***************************************************************************)
Fragments ==
    { <<"g">>, <<"{">>, <<"}">>, <<"{", "}">>, <<"{", "g", "}">>,
      <<"{", "q1", "}">>, <<"{", "q2", "}">>, <<"{", "o3", "}">> }

Responses ==
    { Flatten(fs) : fs \in UNION { [1..n -> Fragments] : n \in 0..MaxFrags } }

NoState == <<>>

PipelineIdle ==
    /\ pc = "idle"
    /\ state = NoState
    /\ node_out = NoState
    /\ trace = <<>>
    /\ raised = <<>>
    /\ written = <<>>
    /\ quiz_given = <<>>
    /\ llm = <<>>
    /\ calls = <<>>

\* the extractor harness and the key-point harness are not in use
ExtractIdle ==
    /\ environ = {}
    /\ installed = FALSE
    /\ url_extractor = NoState
    /\ extractions = <<>>

KeyPointsIdle ==
    /\ kp_text = <<>>
    /\ kp_num = 1
    /\ kp_results = <<>>
    /\ kp_stage = <<>>

TwoRunsIdle ==
    /\ callers = <<>>
    /\ mlflow_tracker = <<>>
    /\ mlflow_runs = <<>>

ScanIdle ==
    /\ sc_text = <<>>
    /\ sc_matches = <<>>

TruncateIdle ==
    /\ tr_content = <<>>
    /\ submissions = <<>>

QuizIdle ==
    /\ h_response = <<>>
    /\ h_count = 1
    /\ h_results = <<>>

InitQuiz ==
    /\ PipelineIdle
    /\ ExtractIdle
    /\ KeyPointsIdle
    /\ TruncateIdle
    /\ ScanIdle
    /\ TwoRunsIdle
    /\ web_searcher = "none"
    /\ shared = FALSE
    /\ h_response \in Responses
    /\ h_count \in 1..MaxQ
    /\ h_results = <<>>

Synthesize ==
    /\ Len(h_results) < MaxCalls
    /\ LET r == GenerateQuizQuestions(<<>>, <<>>, h_count, "mixed",
                                      [ok |-> TRUE, exc |-> <<>>, text |-> h_response])
       IN  h_results' = Append(h_results, r.value)
    /\ UNCHANGED <<pc, state, node_out, trace, raised, written, quiz_given, llm, web_searcher,
                   shared, h_response, h_count, calls, extract_vars, keypoint_vars,
                   truncate_vars, scan_vars, tworun_vars>>

NextQuiz == Synthesize

SpecQuiz == InitQuiz /\ [][NextQuiz]_vars

(***************************************************************************)
(* SummarizationChain (llm_chains.py).  A generation call is given by its  *)
(* reply: [ok |-> TRUE, text |-> ...] when chain.invoke returns and        *)
(* [ok |-> FALSE, exc |-> ...] when it raises.                             *)
(***************************************************************************)
SummarizeContent(content, max_length, reply) ==
    IF reply.ok THEN [ok |-> TRUE, value |-> reply.text]
    ELSE [ok |-> FALSE, exc |-> reply.exc]

\* text.split(sep) for a one-token separator
RECURSIVE Split(_, _)
Split(t, sep) ==
    IF \E i \in 1..Len(t) : t[i] = sep
    THEN LET i == CHOOSE k \in 1..Len(t) :
                     t[k] = sep /\ \A m \in 1..(k - 1) : t[m] # sep
         IN  <<SubSeq(t, 1, i - 1)>> \o Split(SubSeq(t, i + 1, Len(t)), sep)
    ELSE <<t>>

RECURSIVE LStrip(_, _)
LStrip(t, chars) ==
    IF t # <<>> /\ Head(t) \in chars THEN LStrip(Tail(t), chars) ELSE t

RECURSIVE RStrip(_, _)
RStrip(t, chars) ==
    IF t # <<>> /\ t[Len(t)] \in chars THEN RStrip(SubSeq(t, 1, Len(t) - 1), chars)
    ELSE t

Whitespace == {" ", "\n"}

Strip(t) == RStrip(LStrip(t, Whitespace), Whitespace)

Digits == {"0", "1", "2", "3", "4", "5", "6", "7", "8", "9"}

\* the characters of lstrip('0123456789.-•) '); the bullet is written "*"
EnumerationChars == Digits \cup {".", "-", "*", ")", " "}

\* the loop without the test of point: a line of enumeration characters
\* gives an empty key point
RECURSIVE KeyPointsOfKeepingEmpty(_)
KeyPointsOfKeepingEmpty(lines) ==
    IF lines = <<>> THEN <<>>
    ELSE LET line == Strip(Head(lines))
             point == Strip(LStrip(line, EnumerationChars))
         IN  IF /\ line # <<>>
                /\ (line[1] \in Digits \/ line[1] = "-" \/ line[1] = "*")
             THEN <<point>> \o KeyPointsOfKeepingEmpty(Tail(lines))
             ELSE KeyPointsOfKeepingEmpty(Tail(lines))

\* the loop with lstrip('0123456789.-•)'), which stops at the first space
RECURSIVE KeyPointsOfKeepingOwnDigits(_)
KeyPointsOfKeepingOwnDigits(lines) ==
    IF lines = <<>> THEN <<>>
    ELSE LET line == Strip(Head(lines))
             point == Strip(LStrip(line, EnumerationChars \ {" "}))
         IN  IF /\ line # <<>>
                /\ (line[1] \in Digits \/ line[1] = "-" \/ line[1] = "*")
                /\ point # <<>>
             THEN <<point>> \o KeyPointsOfKeepingOwnDigits(Tail(lines))
             ELSE KeyPointsOfKeepingOwnDigits(Tail(lines))

\* the loop of extract_key_points over the lines of the reply
RECURSIVE KeyPointsOf(_)
KeyPointsOf(lines) ==
    IF lines = <<>> THEN <<>>
    ELSE LET line == Strip(Head(lines))
             point == Strip(LStrip(line, EnumerationChars))
         IN  IF /\ line # <<>>
                /\ (line[1] \in Digits \/ line[1] = "-" \/ line[1] = "*")
                /\ point # <<>>
             THEN <<point>> \o KeyPointsOf(Tail(lines))
             ELSE KeyPointsOf(Tail(lines))

\* extract_key_points returning points instead of points[:num_points]
ExtractKeyPointsUncut(content, num_points, reply) ==
    IF reply.ok
    THEN [ok |-> TRUE, value |-> KeyPointsOf(Split(reply.text, "\n"))]
    ELSE [ok |-> FALSE, exc |-> reply.exc]

ExtractKeyPoints(content, num_points, reply) ==
    IF reply.ok
    THEN [ok |-> TRUE, value |-> Take(KeyPointsOf(Split(reply.text, "\n")), num_points)]
    ELSE [ok |-> FALSE, exc |-> reply.exc]

(***************************************************************************)
(* Key-point extraction on its own: the generation call returns a text of  *)
(* up to MaxLines lines, or the list "Intro / 1. A / - B / * C / random    *)
(* line", and extract_key_points is called on it.                          *)
(***************************************************************************)
MaxLines == 3      \* a generated list has at most MaxLines lines
MaxPoints == 3     \* num_points ranges over 1..MaxPoints

\* "\n".join(lines)
RECURSIVE JoinLines(_)
JoinLines(lines) ==
    IF lines = <<>> THEN <<>>
    ELSE IF Len(lines) = 1 THEN lines[1]
    ELSE lines[1] \o <<"\n">> \o JoinLines(Tail(lines))

KeyPointLines ==
    { <<>>,
      <<"Intro">>,
      <<"1", ".", " ", "A">>,
      <<"-", " ", "B">>,
      <<" ", "2", ")", " ", "D", " ">>,
      <<"3", ".", " ", "4", " ", "E">>,
      <<"1", ".">>,
      <<" ", "*", " ">> }

ExampleText ==
    JoinLines(<< <<"Intro">>, <<"1", ".", " ", "A">>, <<"-", " ", "B">>,
                 <<"*", " ", "C">>, <<"random line">> >>)

\* a numbered list of more lines than the pipeline asks key points for
LongList ==
    JoinLines([i \in 1..12 |->
        <<"1", ".", " ",
          <<"a", "b", "c", "d", "e", "f", "g", "h", "i", "j", "k", "l">>[i]>>])

KeyPointTexts ==
    {ExampleText, LongList} \cup
    { JoinLines(ls) : ls \in UNION { [1..n -> KeyPointLines] : n \in 1..MaxLines } }

InitKeyPoints ==
    /\ PipelineIdle
    /\ QuizIdle
    /\ ExtractIdle
    /\ web_searcher = "none"
    /\ shared = FALSE
    /\ kp_text \in KeyPointTexts
    /\ kp_num \in 1..MaxPoints
    /\ kp_results = <<>>
    /\ kp_stage = <<>>
    /\ TruncateIdle
    /\ ScanIdle
    /\ TwoRunsIdle

ParseKeyPoints ==
    /\ kp_results = <<>>
    /\ LET r == ExtractKeyPoints(<<>>, kp_num,
                                 [ok |-> TRUE, exc |-> <<>>, text |-> kp_text])
       IN  kp_results' = Append(kp_results, r.value)
    /\ UNCHANGED <<pc, state, node_out, trace, raised, written, quiz_given, llm, web_searcher,
                   shared, h_response, h_count, h_results, calls, extract_vars,
                   kp_text, kp_num, kp_stage, truncate_vars,
                   scan_vars, tworun_vars>>


(***************************************************************************)
(* The scanner on its own: re.findall(json_pattern, ...) is applied to     *)
(* every text of up to MaxScan tokens, a token being an opening brace, a   *)
(* closing brace or a run of other characters.                             *)
(***************************************************************************)
MaxScan == 7       \* a scanned text has at most MaxScan tokens

ScanTokens == {"{", "}", "g"}

ScanTexts == UNION { [1..n -> ScanTokens] : n \in 0..MaxScan }

InitScan ==
    /\ PipelineIdle
    /\ QuizIdle
    /\ ExtractIdle
    /\ KeyPointsIdle
    /\ TruncateIdle
    /\ web_searcher = "none"
    /\ shared = FALSE
    /\ TwoRunsIdle
    /\ sc_text \in ScanTexts
    /\ sc_matches = <<>>

Scan ==
    /\ sc_matches = <<>>
    /\ sc_matches' = Append(sc_matches, FindAll(sc_text))
    /\ UNCHANGED <<pc, state, node_out, trace, raised, written, quiz_given, llm, web_searcher,
                   shared, h_response, h_count, h_results, calls, extract_vars,
                   keypoint_vars, truncate_vars, sc_text, tworun_vars>>

NextScan == Scan

SpecScan == InitScan /\ [][NextScan]_vars

(***************************************************************************)
(* DocumentProcessor (document_processor.py).  The text splitter and the   *)
(* loaders are libraries: the model takes the chunks and the documents     *)
(* they return as given.                                                   *)
(***************************************************************************)
\* "\n\n".join(texts)
RECURSIVE JoinParagraphs(_)
JoinParagraphs(texts) ==
    IF texts = <<>> THEN <<>>
    ELSE IF Len(texts) = 1 THEN texts[1]
    ELSE texts[1] \o <<"\n\n">> \o JoinParagraphs(Tail(texts))

PageContents(docs) == [i \in 1..Len(docs) |-> docs[i].page_content]

\* process_document: documents are what load_document returned
ProcessDocument(documents, chunks) ==
    [raw_content |-> JoinParagraphs(PageContents(documents)), chunks |-> chunks]

\* process_text
ProcessText(text, source, chunks) ==
    [raw_content |-> text, chunks |-> chunks]

\* the chunk lists the splitter may return for a document: none for an empty
\* text, the text whole, or two slices that cover it
SplitDocument(text, source) ==
    LET doc(c) == [page_content |-> c, metadata |-> [source |-> source]]
    IN  IF text = <<>> THEN {<<>>}
        ELSE {<<doc(text)>>} \cup
             { <<doc(SubSeq(text, 1, i)), doc(SubSeq(text, i + 1, Len(text)))>> :
                 i \in 1..(Len(text) - 1) }

\* split_documents on a list of documents: the chunks of each, in order
RECURSIVE SplitDocuments(_)
SplitDocuments(docs) ==
    IF docs = <<>> THEN {<<>>}
    ELSE { a \o b : a \in SplitDocument(docs[1].page_content, docs[1].metadata.source),
                    b \in SplitDocuments(Tail(docs)) }

(***************************************************************************)
(* WebSearcher and URLContentExtractor (web_serach.py).  An Optional[str]  *)
(* is <<>> for None and <<text>> for a string.  A dict is a function from  *)
(* its keys.  A request to a service is given by its answer: what it       *)
(* returns, or the description of what it raises.                          *)
(***************************************************************************)
None == <<>>
Some(x) == <<x>>

Answered(value) == [ok |-> TRUE, exc |-> <<>>, value |-> value]
Refused(e) == [ok |-> FALSE, exc |-> e, value |-> <<>>]

\* a call of a collaborator: ok is whether it returned (for
\* validate_file_path: what it returned), value the texts it returned, or
\* the description of what it raised
Call(fn, arg, ok, value) == [fn |-> fn, arg |-> arg, ok |-> ok, value |-> value]

\* d.get(key, default)
Get(d, key, default) == IF key \in DOMAIN d THEN d[key] ELSE default

\* a or b on two values that are false when empty
Or(a, b) == IF a # <<>> THEN a ELSE b

\* os.getenv(name) in the environment env, the set of the variables that are
\* set; the value of a variable is written as its name
Getenv(env, name) == IF name \in env THEN Some(name) ELSE None

\* WebSearcher.__init__: the client holds the key it was made with
WebSearcher(tavily_api_key, env) ==
    LET key == Or(tavily_api_key, Getenv(env, "TAVILY_API_KEY"))
    IN  [tavily_api_key |-> key,
         client |-> IF key # None THEN key ELSE None]

\* WebSearcher.get_page_content; answer is what client.extract does
GetPageContent(self, url, answer) ==
    LET response == answer.value
        request == Call("client.extract", <<url>>, answer.ok, <<>>)
    IN  IF self.client = None
        THEN [ok |-> FALSE, exc |-> <<"Tavily API key not configured">>,
              value |-> <<>>, calls |-> <<>>]
        ELSE IF ~answer.ok
        THEN [ok |-> FALSE, exc |-> <<"Content extraction failed: ">> \o answer.exc,
              value |-> <<>>, calls |-> <<request>>]
        ELSE [ok |-> TRUE, exc |-> <<>>,
              value |-> IF /\ DOMAIN response # {}
                           /\ "results" \in DOMAIN response
                           /\ Len(response.results) > 0
                        THEN Get(response.results[1], "raw_content", <<>>)
                        ELSE <<>>,
              calls |-> <<request>>]

\* a constructor that takes firecrawl to be available whenever it has a key
URLContentExtractorWithoutImportCheck(firecrawl_api_key, env, importable) ==
    LET key == Or(firecrawl_api_key, Getenv(env, "FIRECRAWL_API_KEY"))
    IN  [firecrawl_api_key |-> key,
         firecrawl_available |-> key # None]

\* URLContentExtractor.__init__; importable is whether "from firecrawl import
\* FirecrawlApp" succeeds
URLContentExtractor(firecrawl_api_key, env, importable) ==
    LET key == Or(firecrawl_api_key, Getenv(env, "FIRECRAWL_API_KEY"))
    IN  [firecrawl_api_key |-> key,
         firecrawl_available |-> IF key # None THEN importable ELSE FALSE]

\* the Document extract_from_url builds from what firecrawl returned
FirecrawlDocument(url, result) ==
    LET content == Or(Get(result, "markdown", <<>>), Get(result, "content", <<>>))
    IN  [page_content |-> content,
         metadata |-> [source |-> url,
                       title |-> Get(result, "title", <<>>),
                       extractor |-> "firecrawl"]]

\* a fallback Document that carries the label of the primary extractor
TavilyDocumentLabelledFirecrawl(url, content) ==
    [page_content |-> content,
     metadata |-> [source |-> url, extractor |-> "firecrawl"]]

TavilyDocument(url, content) ==
    [page_content |-> content,
     metadata |-> [source |-> url, extractor |-> "tavily"]]

Extracted(doc, made) == [ok |-> TRUE, exc |-> <<>>, doc |-> doc, calls |-> made]
ExtractionFailed(e, made) == [ok |-> FALSE, exc |-> e, doc |-> <<>>, calls |-> made]

\* the calls of the two tiers: scrape is what firecrawl.scrape_url does,
\* page what get_page_content did
ScrapeCall(url, scrape) ==
    Call("scrape_url", <<url>>, scrape.ok,
         IF scrape.ok THEN <<FirecrawlDocument(url, scrape.value).page_content>>
         ELSE scrape.exc)

PageCalls(url, page) ==
    <<Call("get_page_content", <<url>>, page.ok,
           IF page.ok THEN <<page.value>> ELSE page.exc)>> \o page.calls

\* extract_from_url that raises what the primary raised when both tiers fail
ExtractFromUrlPrimaryErrorFirst(self, url, env, scrape, extract) ==
    LET tried == self.firecrawl_available
        before == IF tried THEN <<ScrapeCall(url, scrape)>> ELSE <<>>
        searcher == WebSearcher(None, env)
        page == GetPageContent(searcher, url, extract)
    IN  IF tried /\ scrape.ok
        THEN Extracted(FirecrawlDocument(url, scrape.value), before)
        ELSE IF page.ok
        THEN Extracted(TavilyDocument(url, page.value), before \o PageCalls(url, page))
        ELSE ExtractionFailed(IF tried THEN scrape.exc ELSE page.exc,
                              before \o PageCalls(url, page))

\* URLContentExtractor.extract_from_url; scrape is what firecrawl.scrape_url
\* does and extract what the Tavily client's extract does, when called
ExtractFromUrl(self, url, env, scrape, extract) ==
    LET tried == self.firecrawl_available
        before == IF tried THEN <<ScrapeCall(url, scrape)>> ELSE <<>>
        searcher == WebSearcher(None, env)
        page == GetPageContent(searcher, url, extract)
    IN  IF tried /\ scrape.ok
        THEN Extracted(FirecrawlDocument(url, scrape.value), before)
        ELSE IF page.ok
        THEN Extracted(TavilyDocument(url, page.value), before \o PageCalls(url, page))
        ELSE ExtractionFailed(page.exc, before \o PageCalls(url, page))

(***************************************************************************)
(* Extraction on its own: an extractor made in some environment is asked   *)
(* for pages, the two services answering in every way.                     *)
(***************************************************************************)
MaxExtracts == 2   \* extract_from_url is called at most MaxExtracts times

EnvNames == {"FIRECRAWL_API_KEY", "TAVILY_API_KEY"}

Urls == { <<"u1">>, <<"u2">> }

\* what firecrawl.scrape_url may do: a page as markdown, a page as content
\* only, a result with no text, or an exception
ScrapeAnswers ==
    { Answered([markdown |-> <<"m">>, title |-> <<"t">>]),
      Answered([markdown |-> <<>>, content |-> <<"c">>]),
      Answered([markdown |-> <<>>]),
      Refused(<<"Payment Required">>) }

\* what the Tavily client's extract may do: a page, a page with no text, no
\* result, or an exception
ExtractAnswers ==
    { Answered([results |-> << [raw_content |-> <<"p">>] >>]),
      Answered([results |-> << [url |-> <<"u">>] >>]),
      Answered([results |-> <<>>]),
      Refused(<<"timeout">>) }

InitExtract ==
    /\ PipelineIdle
    /\ QuizIdle
    /\ KeyPointsIdle
    /\ TruncateIdle
    /\ ScanIdle
    /\ TwoRunsIdle
    /\ web_searcher = "none"
    /\ shared = FALSE
    /\ environ \in SUBSET EnvNames
    /\ installed \in BOOLEAN
    /\ \E firecrawl_api_key \in {None, Some("fc-key")} :
          url_extractor = URLContentExtractor(firecrawl_api_key, environ, installed)
    /\ extractions = <<>>

Extract ==
    /\ Len(extractions) < MaxExtracts
    /\ \E url \in Urls, scrape \in ScrapeAnswers, extract \in ExtractAnswers :
          extractions' =
              Append(extractions, ExtractFromUrl(url_extractor, url, environ, scrape, extract))
    /\ UNCHANGED <<pc, state, node_out, trace, raised, written, quiz_given, llm, web_searcher,
                   shared, h_response, h_count, h_results, calls,
                   environ, installed, url_extractor, keypoint_vars,
                   truncate_vars, scan_vars, tworun_vars>>

NextExtract == Extract

SpecExtract == InitExtract /\ [][NextExtract]_vars

(***************************************************************************)
(* StudyAssistantAgent (agent.py).  A node is an operator from the state    *)
(* dict it is given and the answers of the collaborators it calls to       *)
(*   [state   |-> the state dict it returns,                               *)
(*    exc     |-> the exception its try block raised, if any,              *)
(*    escaped |-> whether an exception left the node].                     *)
(***************************************************************************)
MaxSummaryLength == 500
ContentLimit == 8000
NumKeyPoints == 10
MaxResults == 3

\* what a node returns when its try block ended, and when it raised
Returned(s) == [state |-> s, exc |-> None, escaped |-> FALSE]
Caught(s, e) == [state |-> s, exc |-> Some(e), escaped |-> FALSE]
Escaped(s, e) == [state |-> s, exc |-> Some(e), escaped |-> TRUE]

\* StudyMaterial(content=chunk.page_content, source=..., topic=...) per chunk
StudyMaterials(chunks, source, topic) ==
    [i \in 1..Len(chunks) |->
        [content |-> chunks[i].page_content, source |-> source, topic |-> topic]]

\* Config.SUPPORTED_FILE_TYPES
SupportedFileTypes == {".pdf", ".docx", ".txt", ".md"}

\* Path(file_path).suffix: a path is a sequence of tokens, the last of which
\* is its extension when the path has more than one token
Suffix(file_path) ==
    IF Len(file_path) > 1 THEN file_path[Len(file_path)] ELSE ""

\* str.lower() on the extensions of the model
Lower(suffix) ==
    CASE suffix = ".TXT" -> ".txt"
      [] suffix = ".PDF" -> ".pdf"
      [] OTHER -> suffix

\* validate_file_path that does not look at the extension
ValidateFilePathAnySuffix(file_path, exists) ==
    IF ~exists THEN FALSE
    ELSE TRUE

\* validate_file_path: exists is what path.exists() answers
ValidateFilePath(file_path, exists) ==
    IF ~exists THEN FALSE
    ELSE IF Lower(Suffix(file_path)) \notin SupportedFileTypes THEN FALSE
    ELSE TRUE

\* the try block of load_content_node ends, or raises e, after the calls made
Loaded(s, raw_content, materials, made) ==
    [ok |-> TRUE, exc |-> <<>>, calls |-> made,
     state |-> [s EXCEPT !.raw_content = raw_content, !.study_materials = materials]]
\* a try block that has stored the input as raw_content when it raises
LoadFailedKeepingInput(s, e, made) ==
    [ok |-> FALSE, exc |-> e, calls |-> made,
     state |-> [s EXCEPT !.raw_content = s.input_data]]

LoadFailed(s, e, made) == [ok |-> FALSE, exc |-> e, calls |-> made, state |-> s]

\* the branches of load_content_node.  env.exists is what path.exists()
\* answers, env.fetch what the loader, the extractor or the search does,
\* env.chunks what the splitter returns.
LoadFile(s, env) ==
    LET input_data == s.input_data
        valid == ValidateFilePath(input_data, env.exists)
        validated == <<Call("validate_file_path", <<input_data>>, valid, <<>>),
                       Call("path.exists", <<input_data>>, env.exists, <<>>)>>
        load(ok) == Call("load_document", <<input_data>>, ok, PageContents(env.fetch.docs))
    IN  IF ~valid THEN LoadFailed(s, <<"Invalid file: ">> \o input_data, validated)
        ELSE IF ~env.fetch.ok THEN LoadFailed(s, env.fetch.exc, validated \o <<load(FALSE)>>)
        ELSE LET r == ProcessDocument(env.fetch.docs, env.chunks)
             IN  Loaded(s, r.raw_content,
                        [i \in 1..Len(r.chunks) |->
                            [content |-> r.chunks[i].page_content,
                             source |-> IF "source" \in DOMAIN r.chunks[i].metadata
                                        THEN r.chunks[i].metadata.source
                                        ELSE input_data,
                             topic |-> None]],
                        validated \o
                        <<load(TRUE),
                          Call("split_documents", PageContents(env.fetch.docs), TRUE,
                               PageContents(r.chunks))>>)

\* a version of the text branch that takes the state's text from the chunks
LoadTextFromChunks(s, env) ==
    LET input_data == s.input_data
        r == ProcessText(input_data, <<"direct_input">>, env.chunks)
    IN  Loaded(s, JoinParagraphs(PageContents(r.chunks)),
               StudyMaterials(r.chunks, <<"direct_input">>, None),
               <<Call("split_documents", <<input_data>>, TRUE, PageContents(r.chunks))>>)

LoadText(s, env) ==
    LET input_data == s.input_data
        r == ProcessText(input_data, <<"direct_input">>, env.chunks)
    IN  Loaded(s, r.raw_content,
               StudyMaterials(r.chunks, <<"direct_input">>, None),
               <<Call("split_documents", <<input_data>>, TRUE, PageContents(r.chunks))>>)

LoadUrl(s, env) ==
    LET input_data == s.input_data
        extract(ok) == Call("extract_from_url", <<input_data>>, ok,
                            PageContents(env.fetch.docs))
    IN  IF ~env.fetch.ok THEN LoadFailed(s, env.fetch.exc, <<extract(FALSE)>>)
        ELSE LET doc == env.fetch.docs[1]
                 r == ProcessText(doc.page_content, input_data, env.chunks)
             IN  Loaded(s, r.raw_content, StudyMaterials(r.chunks, input_data, None),
                        <<extract(TRUE),
                          Call("split_documents", <<doc.page_content>>, TRUE,
                               PageContents(r.chunks))>>)

\* the search branch without the test of self.web_searcher
LoadSearchUnguarded(s, env) ==
    LET input_data == s.input_data
        search(ok) == Call("search", <<input_data, MaxResults>>, ok,
                           PageContents(env.fetch.docs))
    IN  IF ~env.fetch.ok THEN LoadFailed(s, env.fetch.exc, <<search(FALSE)>>)
        ELSE LET combined_content == JoinParagraphs(PageContents(env.fetch.docs))
                 r == ProcessText(combined_content, <<"search:">> \o input_data,
                                  env.chunks)
             IN  Loaded(s, r.raw_content,
                        StudyMaterials(r.chunks, <<"search:">> \o input_data,
                                       Some(input_data)),
                        <<search(TRUE),
                          Call("split_documents", <<combined_content>>, TRUE,
                               PageContents(r.chunks))>>)

\* the search branch with materials that carry no topic
LoadSearchUntagged(s, env) ==
    LET input_data == s.input_data
        search(ok) == Call("search", <<input_data, MaxResults>>, ok,
                           PageContents(env.fetch.docs))
    IN  IF web_searcher = "none"
        THEN LoadFailed(s, <<"Web search not available (Tavily API key missing)">>, <<>>)
        ELSE IF ~env.fetch.ok THEN LoadFailed(s, env.fetch.exc, <<search(FALSE)>>)
        ELSE LET combined_content == JoinParagraphs(PageContents(env.fetch.docs))
                 r == ProcessText(combined_content, <<"search:">> \o input_data,
                                  env.chunks)
             IN  Loaded(s, r.raw_content,
                        StudyMaterials(r.chunks, <<"search:">> \o input_data, None),
                        <<search(TRUE),
                          Call("split_documents", <<combined_content>>, TRUE,
                               PageContents(r.chunks))>>)

LoadSearch(s, env) ==
    LET input_data == s.input_data
        search(ok) == Call("search", <<input_data, MaxResults>>, ok,
                           PageContents(env.fetch.docs))
    IN  IF web_searcher = "none"
        THEN LoadFailed(s, <<"Web search not available (Tavily API key missing)">>, <<>>)
        ELSE IF ~env.fetch.ok THEN LoadFailed(s, env.fetch.exc, <<search(FALSE)>>)
        ELSE LET combined_content == JoinParagraphs(PageContents(env.fetch.docs))
                 r == ProcessText(combined_content, <<"search:">> \o input_data,
                                  env.chunks)
             IN  Loaded(s, r.raw_content,
                        StudyMaterials(r.chunks, <<"search:">> \o input_data,
                                       Some(input_data)),
                        <<search(TRUE),
                          Call("split_documents", <<combined_content>>, TRUE,
                               PageContents(r.chunks))>>)

\* a dispatch that takes an unknown input type for text
LoadContentTryDefaultsToText(s, env) ==
    LET input_type == s.input_type
    IN  CASE input_type = "file" -> LoadFile(s, env)
          [] input_type = "url" -> LoadUrl(s, env)
          [] input_type = "search" -> LoadSearch(s, env)
          [] OTHER -> LoadText(s, env)

\* the try block of load_content_node
LoadContentTry(s, env) ==
    LET input_type == s.input_type
    IN  CASE input_type = "file" -> LoadFile(s, env)
          [] input_type = "text" -> LoadText(s, env)
          [] input_type = "url" -> LoadUrl(s, env)
          [] input_type = "search" -> LoadSearch(s, env)
          [] OTHER -> LoadFailed(s, <<"Unknown input type: ", input_type>>, <<>>)

\* the record of a node that made calls
WithCalls(r, made) ==
    [state |-> r.state, exc |-> r.exc, escaped |-> r.escaped, calls |-> made]

LoadContentNode(s, env) ==
    LET s1 == [s EXCEPT !.current_step = "loading_content",
                        !.messages = Append(@, <<"Loading content from ", s.input_type, "...">>)]
        r == LoadContentTry(s1, env)
    IN  IF r.ok
        THEN WithCalls(Returned([r.state EXCEPT !.messages =
                 Append(@, <<"[ok] Content loaded: ", Len(r.state.raw_content), " characters">>)]),
                 r.calls)
        ELSE WithCalls(Caught([r.state EXCEPT !.error = Some(r.exc),
                               !.messages = Append(@, <<"[x] Error loading content: ">> \o r.exc)],
                              r.exc),
                       r.calls)

\* process_documents_node that reports its outcome before its start
ProcessDocumentsNodeOutcomeFirst(s) ==
    LET s1 == [s EXCEPT !.current_step = "processing_documents"]
        num_chunks == IF "study_materials" \in DOMAIN s1 THEN Len(s1.study_materials) ELSE 0
    IN  Returned([s1 EXCEPT !.messages =
                     @ \o << <<"[ok] Processed into ", num_chunks, " chunks">>,
                             <<"Processing documents...">> >>])

\* process_documents_node that empties raw_content once the chunks are there
ProcessDocumentsNodeDroppingRaw(s) ==
    LET s1 == [s EXCEPT !.current_step = "processing_documents",
                        !.messages = Append(@, <<"Processing documents...">>),
                        !.raw_content = <<>>]
        num_chunks == IF "study_materials" \in DOMAIN s1 THEN Len(s1.study_materials) ELSE 0
    IN  Returned([s1 EXCEPT !.messages =
                     Append(@, <<"[ok] Processed into ", num_chunks, " chunks">>)])

ProcessDocumentsNode(s) ==
    LET s1 == [s EXCEPT !.current_step = "processing_documents",
                        !.messages = Append(@, <<"Processing documents...">>)]
        num_chunks == IF "study_materials" \in DOMAIN s1 THEN Len(s1.study_materials) ELSE 0
    IN  Returned([s1 EXCEPT !.messages =
                     Append(@, <<"[ok] Processed into ", num_chunks, " chunks">>)])

\* "\n\n".join of the contents of the study materials, cut at ContentLimit
CombinedContent(s) ==
    Truncate(JoinParagraphs([i \in 1..Len(s.study_materials) |->
                                s.study_materials[i].content]),
             ContentLimit)

StartSummary(s) ==
    [s EXCEPT !.current_step = "generating_summary",
              !.messages = Append(@, <<"Generating summary...">>)]

\* generate_summary_node without its except clause
GenerateSummaryNodeUncaught(s, reply) ==
    LET s1 == StartSummary(s)
        r == SummarizeContent(CombinedContent(s1), MaxSummaryLength, reply)
    IN  IF r.ok
        THEN Returned([s1 EXCEPT !.summary = r.value,
                 !.messages = Append(@, <<"[ok] Summary generated (", Len(r.value), " chars)">>)])
        ELSE Escaped(s1, r.exc)

\* generate_summary_node that clears error when it succeeds
GenerateSummaryNodeClearingError(s, reply) ==
    LET s1 == StartSummary(s)
        r == SummarizeContent(CombinedContent(s1), MaxSummaryLength, reply)
    IN  IF r.ok
        THEN Returned([s1 EXCEPT !.summary = r.value, !.error = None,
                 !.messages = Append(@, <<"[ok] Summary generated (", Len(r.value), " chars)">>)])
        ELSE Caught([s1 EXCEPT !.error = Some(r.exc),
                        !.messages = Append(@, <<"[x] Error generating summary: ">> \o r.exc),
                        !.summary = <<"Summary generation failed.">>],
                    r.exc)

GenerateSummaryNode(s, reply) ==
    LET s1 == StartSummary(s)
        r == SummarizeContent(CombinedContent(s1), MaxSummaryLength, reply)
    IN  IF r.ok
        THEN Returned([s1 EXCEPT !.summary = r.value,
                 !.messages = Append(@, <<"[ok] Summary generated (", Len(r.value), " chars)">>)])
        ELSE Caught([s1 EXCEPT !.error = Some(r.exc),
                        !.messages = Append(@, <<"[x] Error generating summary: ">> \o r.exc),
                        !.summary = <<"Summary generation failed.">>],
                    r.exc)

StartKeyPoints(s) ==
    [s EXCEPT !.current_step = "extracting_key_points",
              !.messages = Append(@, <<"Extracting key points...">>)]

\* extract_key_points_node with an except clause that leaves error as it was
ExtractKeyPointsNodeErrorUnset(s, reply) ==
    LET s1 == StartKeyPoints(s)
        r == ExtractKeyPoints(CombinedContent(s1), NumKeyPoints, reply)
    IN  IF r.ok
        THEN Returned([s1 EXCEPT !.key_points = r.value,
                 !.messages = Append(@, <<"[ok] Extracted ", Len(r.value), " key points">>)])
        ELSE Caught([s1 EXCEPT
                        !.messages = Append(@, <<"[x] Error extracting key points: ">> \o r.exc),
                        !.key_points = <<>>],
                    r.exc)

\* extract_key_points_node with an except clause that also resets summary
ExtractKeyPointsNodeResettingSummary(s, reply) ==
    LET s1 == StartKeyPoints(s)
        r == ExtractKeyPoints(CombinedContent(s1), NumKeyPoints, reply)
    IN  IF r.ok
        THEN Returned([s1 EXCEPT !.key_points = r.value,
                 !.messages = Append(@, <<"[ok] Extracted ", Len(r.value), " key points">>)])
        ELSE Caught([s1 EXCEPT !.error = Some(r.exc),
                        !.messages = Append(@, <<"[x] Error extracting key points: ">> \o r.exc),
                        !.key_points = <<>>,
                        !.summary = <<"Summary generation failed.">>],
                    r.exc)

ExtractKeyPointsNode(s, reply) ==
    LET s1 == StartKeyPoints(s)
        r == ExtractKeyPoints(CombinedContent(s1), NumKeyPoints, reply)
    IN  IF r.ok
        THEN Returned([s1 EXCEPT !.key_points = r.value,
                 !.messages = Append(@, <<"[ok] Extracted ", Len(r.value), " key points">>)])
        ELSE Caught([s1 EXCEPT !.error = Some(r.exc),
                        !.messages = Append(@, <<"[x] Error extracting key points: ">> \o r.exc),
                        !.key_points = <<>>],
                    r.exc)

DefaultNumQuestions == 5

StartQuiz(s) ==
    [s EXCEPT !.current_step = "generating_quiz",
              !.messages = Append(@, <<"Generating quiz questions...">>)]

\* a quiz content taken from raw_content whatever summary holds
QuizContentFromRaw(s) == Take(s.raw_content, QuizContentLimit)

\* content = state.get("summary", state["raw_content"][:3000])
QuizContent(s) ==
    IF "summary" \in DOMAIN s THEN s.summary
    ELSE Take(s.raw_content, QuizContentLimit)

\* the call of generate_quiz_questions in generate_quiz_node, with the
\* state.get defaults
QuizCall(s, reply) ==
    LET content == QuizContent(s)
        key_points == IF "key_points" \in DOMAIN s THEN s.key_points ELSE <<>>
        num_questions == IF "num_questions" \in DOMAIN s THEN s.num_questions
                         ELSE DefaultNumQuestions
        difficulty == IF "difficulty_level" \in DOMAIN s THEN s.difficulty_level
                      ELSE "mixed"
    IN  GenerateQuizQuestions(content, key_points, num_questions, difficulty, reply)

\* generate_quiz_node with an except clause that pads instead of emptying
GenerateQuizNodePadsOnFailure(s, reply) ==
    LET s1 == StartQuiz(s)
        r == QuizCall(s1, reply)
    IN  IF r.ok
        THEN Returned([s1 EXCEPT !.quiz_questions = r.value,
                 !.messages = Append(@, <<"[ok] Generated ", Len(r.value), " quiz questions">>)])
        ELSE Caught([s1 EXCEPT !.error = Some(r.exc),
                        !.messages = Append(@, <<"[x] Error generating quiz: ">> \o r.exc),
                        !.quiz_questions = CreateFallbackQuestions(<<>>, s1.num_questions)],
                    r.exc)

\* generate_quiz_node with an except clause that keeps an error already set
GenerateQuizNodeKeepsFirstError(s, reply) ==
    LET s1 == StartQuiz(s)
        r == QuizCall(s1, reply)
    IN  IF r.ok
        THEN Returned([s1 EXCEPT !.quiz_questions = r.value,
                 !.messages = Append(@, <<"[ok] Generated ", Len(r.value), " quiz questions">>)])
        ELSE Caught([s1 EXCEPT !.error = IF @ # None THEN @ ELSE Some(r.exc),
                        !.messages = Append(@, <<"[x] Error generating quiz: ">> \o r.exc),
                        !.quiz_questions = <<>>],
                    r.exc)

\* generate_quiz_node that reports a padded list as a failure
GenerateQuizNodeFlaggingShortfall(s, reply) ==
    LET s1 == StartQuiz(s)
        r == QuizCall(s1, reply)
    IN  IF r.ok
        THEN IF \E j \in 1..Len(r.value) :
                    r.value[j] = CreateFallbackQuestions(<<>>, s1.num_questions)[j]
             THEN Caught([s1 EXCEPT !.quiz_questions = r.value,
                             !.error = Some(<<"Too few questions">>),
                             !.messages = Append(@, <<"[x] Error generating quiz: ",
                                                      "Too few questions">>)],
                         <<"Too few questions">>)
             ELSE Returned([s1 EXCEPT !.quiz_questions = r.value,
                     !.messages = Append(@, <<"[ok] Generated ", Len(r.value), " quiz questions">>)])
        ELSE Caught([s1 EXCEPT !.error = Some(r.exc),
                        !.messages = Append(@, <<"[x] Error generating quiz: ">> \o r.exc),
                        !.quiz_questions = <<>>],
                    r.exc)

GenerateQuizNode(s, reply) ==
    LET s1 == StartQuiz(s)
        r == QuizCall(s1, reply)
    IN  IF r.ok
        THEN Returned([s1 EXCEPT !.quiz_questions = r.value,
                 !.messages = Append(@, <<"[ok] Generated ", Len(r.value), " quiz questions">>)])
        ELSE Caught([s1 EXCEPT !.error = Some(r.exc),
                        !.messages = Append(@, <<"[x] Error generating quiz: ">> \o r.exc),
                        !.quiz_questions = <<>>],
                    r.exc)

FinalizeNode(s) ==
    LET s1 == [s EXCEPT !.current_step = "finalizing",
                        !.messages = Append(@, <<"Finalizing results...">>)]
    IN  Returned([s1 EXCEPT !.messages =
                     Append(@, <<"[ok] Study assistant processing complete!">>)])

(***************************************************************************)
(* The graph of _build_graph and the state schema AgentState (config.py).  *)
(***************************************************************************)
EntryPoint == "load_content"

\* an edge table that leaves generate_quiz out
EdgeAroundQuiz(node) ==
    CASE node = "load_content" -> "process_documents"
      [] node = "process_documents" -> "generate_summary"
      [] node = "generate_summary" -> "extract_key_points"
      [] node = "extract_key_points" -> "finalize"
      [] node = "generate_quiz" -> "finalize"
      [] node = "finalize" -> "END"

\* an edge table that starts generate_quiz as soon as the summary is there
EdgeSkippingKeyPoints(node) ==
    CASE node = "load_content" -> "process_documents"
      [] node = "process_documents" -> "generate_summary"
      [] node = "generate_summary" -> "generate_quiz"
      [] node = "extract_key_points" -> "generate_quiz"
      [] node = "generate_quiz" -> "finalize"
      [] node = "finalize" -> "END"

\* workflow.add_edge(node, Edge(node))
Edge(node) ==
    CASE node = "load_content" -> "process_documents"
      [] node = "process_documents" -> "generate_summary"
      [] node = "generate_summary" -> "extract_key_points"
      [] node = "extract_key_points" -> "generate_quiz"
      [] node = "generate_quiz" -> "finalize"
      [] node = "finalize" -> "END"

\* the keys of AgentState annotated with the reducer operator.add
AddReduced == {"quiz_questions", "messages"}

\* the channel values after the state dict a node returned is written to
\* them: an annotated key is added to what the channel holds, any other is
\* overwritten.  A node appends to messages in place, so when it was given
\* the channel's own list (shared), the channel already holds the appended
\* list at the time of the write.
Merge(channels, out) ==
    [k \in DOMAIN channels |->
        IF k \notin DOMAIN out THEN channels[k]
        ELSE IF k \in AddReduced
        THEN (IF shared /\ k = "messages" THEN out[k] ELSE channels[k]) \o out[k]
        ELSE out[k]]

\* the initial_state dict of run
InitialState(input_type, input_data, num_questions, difficulty_level) ==
    [input_type |-> input_type,
     input_data |-> input_data,
     raw_content |-> <<>>,
     study_materials |-> <<>>,
     summary |-> <<>>,
     key_points |-> <<>>,
     num_questions |-> num_questions,
     difficulty_level |-> difficulty_level,
     quiz_questions |-> <<>>,
     current_step |-> "initialized",
     error |-> None,
     mlflow_run_id |-> Some("run"),
     messages |-> <<>>]

(***************************************************************************)
(* Truncation on its own: the study material is one chunk of tr_content,   *)
(* a text given character by character (a token is one character, and the  *)
(* "..." the code appends is one token), of a length near 0 or near one of *)
(* the two limits; each of the three requests is built from it once.       *)
(***************************************************************************)
MaxSlack == 12     \* content lengths are within MaxSlack of 0, 3000 and 8000

CharAt(i) == <<"a", "b", "c", "d", "e", "f", "g", "h", "i", "j">>[(i % 10) + 1]

ContentOfLength(n) == [i \in 1..n |-> CharAt(i)]

ContentLengths ==
    (0..MaxSlack)
        \cup ((QuizContentLimit - MaxSlack)..(QuizContentLimit + MaxSlack))
        \cup ((ContentLimit - MaxSlack)..(ContentLimit + MaxSlack))

\* the state the analysis nodes are given when load_content_node stored
\* tr_content as one study material
Studied(content) ==
    [InitialState("text", content, 1, "mixed") EXCEPT
        !.raw_content = content,
        !.study_materials =
            StudyMaterials(<<[page_content |-> content]>>, "a", "Direct Input")]

Submitted(request, content, sent) ==
    submissions' = Append(submissions,
                          [request |-> request, content |-> content, sent |-> sent])

Sent(request) == \E i \in 1..Len(submissions) : submissions[i].request = request

InitTruncate ==
    /\ PipelineIdle
    /\ QuizIdle
    /\ ExtractIdle
    /\ KeyPointsIdle
    /\ web_searcher = "none"
    /\ shared = FALSE
    /\ ScanIdle
    /\ TwoRunsIdle
    /\ tr_content \in { ContentOfLength(n) : n \in ContentLengths }
    /\ submissions = <<>>

\* the content generate_summary_node passes to summarize_content
SubmitSummary ==
    /\ ~Sent("summary")
    /\ Submitted("summary", tr_content, CombinedContent(StartSummary(Studied(tr_content))))
    /\ UNCHANGED <<pc, state, node_out, trace, raised, written, quiz_given, llm, web_searcher,
                   shared, h_response, h_count, h_results, calls, extract_vars,
                   keypoint_vars, tr_content, scan_vars, tworun_vars>>

\* the content extract_key_points_node passes to extract_key_points
SubmitKeyPoints ==
    /\ ~Sent("key_points")
    /\ Submitted("key_points", tr_content,
                 CombinedContent(StartKeyPoints(Studied(tr_content))))
    /\ UNCHANGED <<pc, state, node_out, trace, raised, written, quiz_given, llm, web_searcher,
                   shared, h_response, h_count, h_results, calls, extract_vars,
                   keypoint_vars, tr_content, scan_vars, tworun_vars>>

\* the content generate_quiz_questions puts into its prompt
SubmitQuiz ==
    /\ ~Sent("quiz")
    /\ Submitted("quiz", tr_content, QuizPromptContent(tr_content))
    /\ UNCHANGED <<pc, state, node_out, trace, raised, written, quiz_given, llm, web_searcher,
                   shared, h_response, h_count, h_results, calls, extract_vars,
                   keypoint_vars, tr_content, scan_vars, tworun_vars>>

NextTruncate ==
    \/ SubmitSummary
    \/ SubmitKeyPoints
    \/ SubmitQuiz

SpecTruncate == InitTruncate /\ [][NextTruncate]_vars

(***************************************************************************)
(* Runs on one agent, interleaved: MaxRuns callers each call run once on   *)
(* the same StudyAssistantAgent, whose MLflowTracker is one object.  run   *)
(* is cut where one caller can be preempted by another: between the two   *)
(* statements of start_run that write and read current_run_id, and around *)
(* graph.invoke, which works on the caller's own state dict and is taken   *)
(* here by its outcome only.                                               *)
(***************************************************************************)
MaxRuns == 2       \* the number of callers of run

Callers == 1..MaxRuns

\* the id mlflow.start_run gives the n-th run it creates
RunId(n) == <<"run-", n>>

\* MLflowTracker.__init__: self.current_run_id = None
MLflowTracker == [current_run_id |-> None]

NotCalled == [pc |-> "idle", run |-> None, run_id |-> None, state |-> <<>>]

InitTwoRuns ==
    /\ PipelineIdle
    /\ QuizIdle
    /\ ExtractIdle
    /\ KeyPointsIdle
    /\ TruncateIdle
    /\ ScanIdle
    /\ web_searcher = "none"
    /\ shared = FALSE
    /\ callers = [r \in Callers |-> NotCalled]
    /\ mlflow_tracker = MLflowTracker
    /\ mlflow_runs = <<>>

TwoRunsFrame ==
    UNCHANGED <<pc, state, node_out, trace, raised, written, quiz_given, llm, web_searcher,
                shared, h_response, h_count, h_results, calls, extract_vars,
                keypoint_vars, truncate_vars, scan_vars>>

\* start_run, lines 38-39: run = mlflow.start_run(...) and
\* self.current_run_id = run.info.run_id
StartRunAssign(r) ==
    /\ callers[r].pc = "idle"
    /\ LET id == RunId(Len(mlflow_runs) + 1)
       IN  /\ mlflow_runs' = Append(mlflow_runs, id)
           /\ mlflow_tracker' = [mlflow_tracker EXCEPT !.current_run_id = Some(id)]
           /\ callers' = [callers EXCEPT ![r].pc = "start_run", ![r].run = Some(id)]
    /\ TwoRunsFrame

\* start_run, line 41: return self.current_run_id, which run binds to run_id
StartRunReturn(r) ==
    /\ callers[r].pc = "start_run"
    /\ callers' = [callers EXCEPT ![r].pc = "initialize",
                                  ![r].run_id = mlflow_tracker.current_run_id]
    /\ UNCHANGED <<mlflow_tracker, mlflow_runs>>
    /\ TwoRunsFrame

\* run builds its initial_state dict
Initialize(r) ==
    /\ callers[r].pc = "initialize"
    /\ \E input_type \in {"text", "url"} :
          callers' = [callers EXCEPT
              ![r].pc = "invoke",
              ![r].state = [InitialState(input_type, <<"a">>, 1, "mixed") EXCEPT
                               !.mlflow_run_id = callers[r].run_id]]
    /\ UNCHANGED <<mlflow_tracker, mlflow_runs>>
    /\ TwoRunsFrame

\* final_state = self.graph.invoke(initial_state): the graph works on the
\* dict it was given; of its outcome only error and current_step are kept
Invoke(r) ==
    /\ callers[r].pc = "invoke"
    /\ \E e \in {None, Some(<<"Request timed out">>)} :
          callers' = [callers EXCEPT
              ![r].pc = "end_run",
              ![r].state = [@ EXCEPT !.current_step = "finalizing", !.error = e]]
    /\ UNCHANGED <<mlflow_tracker, mlflow_runs>>
    /\ TwoRunsFrame

\* end_run: mlflow.end_run(status) and self.current_run_id = None; run
\* returns final_state
EndRun(r) ==
    /\ callers[r].pc = "end_run"
    /\ mlflow_tracker' = [mlflow_tracker EXCEPT !.current_run_id = None]
    /\ callers' = [callers EXCEPT ![r].pc = "returned"]
    /\ UNCHANGED mlflow_runs
    /\ TwoRunsFrame

NextTwoRuns ==
    \E r \in Callers :
        \/ StartRunAssign(r)
        \/ StartRunReturn(r)
        \/ Initialize(r)
        \/ Invoke(r)
        \/ EndRun(r)

SpecTwoRuns == InitTwoRuns /\ [][NextTwoRuns]_vars

(***************************************************************************)
(* What the collaborators may answer.                                      *)
(***************************************************************************)
Reply(t) == [ok |-> TRUE, exc |-> <<>>, text |-> t]
Failure(e) == [ok |-> FALSE, exc |-> e, text |-> <<>>]

(***************************************************************************)
(* Key-point extraction on its own, continued: extract_key_points_node is  *)
(* run on the state of a run whose generation call returns kp_text, with   *)
(* error unset or set by an earlier node.                                  *)
(***************************************************************************)
EarlierErrors == { None, Some(<<"Unsupported input type: audio">>) }

ExtractStage ==
    /\ kp_stage = <<>>
    /\ \E e \in EarlierErrors :
          LET given == [InitialState("text", <<"a">>, 1, "mixed") EXCEPT !.error = e]
              r == ExtractKeyPointsNode(given, Reply(kp_text))
          IN  kp_stage' = Append(kp_stage, [given |-> given, out |-> r.state])
    /\ UNCHANGED <<pc, state, node_out, trace, raised, written, quiz_given, llm, web_searcher,
                   shared, h_response, h_count, h_results, calls, extract_vars,
                   kp_text, kp_num, kp_results, truncate_vars,
                   scan_vars, tworun_vars>>

NextKeyPoints ==
    \/ ParseKeyPoints
    \/ ExtractStage

SpecKeyPoints == InitKeyPoints /\ [][NextKeyPoints]_vars

LlmErrors == { <<"Incorrect API key provided">>, <<"Request timed out">> }

SummaryReplies ==
    { Reply(<<>>), Reply(<<"S">>) } \cup { Failure(e) : e \in LlmErrors }

KeyPointReplies ==
    { Reply(<<>>),
      Reply(<<"Intro", "\n", "1", ".", " ", "A", "\n", "-", " ", "B", "\n",
              "*", " ", "C", "\n", "random line">>) }
    \cup { Failure(e) : e \in LlmErrors }

QuizTexts ==
    { <<>>,
      <<"g", "{", "q1", "}", "g", "{", "q2", "}", "{", "q1", "}">>,
      <<"{", "}", "{", "q2", "}">>,
      <<"{", "o3", "}">> }

QuizReplies == { Reply(t) : t \in QuizTexts } \cup { Failure(e) : e \in LlmErrors }

Document(text, source) == [page_content |-> text, metadata |-> [source |-> source]]

Fetched(docs) == [ok |-> TRUE, exc |-> <<>>, docs |-> docs]
FetchFailed(e) == [ok |-> FALSE, exc |-> e, docs |-> <<>>]

\* load_document(path): the pages of the file, or an exception of the loader
LoadResults(path) ==
    { Fetched(<<Document(<<"a">>, path)>>),
      Fetched(<<Document(<<"a">>, path), Document(<<"b">>, path)>>),
      FetchFailed(<<"Error loading ">> \o path) }

\* extract_from_url(url): a document, possibly empty, or an exception
ExtractResults(url) ==
    { Fetched(<<Document(<<>>, url)>>),
      Fetched(<<Document(<<"w", "x">>, url)>>),
      FetchFailed(<<"Content extraction failed: ", "timeout">>) }

\* web_searcher.search(query, max_results): at most max_results documents,
\* or an exception
SearchResults(query, max_results) ==
    { Fetched(Take(<<Document(<<"r1">>, <<"u1">>), Document(<<"r2">>, <<"u2">>)>>, n)) :
        n \in 0..Min(2, max_results) }
    \cup { FetchFailed(<<"Web search failed: ", "unauthorized">>) }

NoFetch == Fetched(<<>>)

Env(exists, fetch, chunks) ==
    [exists |-> exists, fetch |-> fetch, chunks |-> chunks]

\* the answers load_content_node can get for a state
LoadEnvs(s) ==
    LET input_data == s.input_data
        with(fetches, text(_), source) ==
            UNION { IF f.ok
                    THEN { Env(TRUE, f, c) : c \in SplitDocument(text(f), source) }
                    ELSE { Env(TRUE, f, <<>>) } : f \in fetches }
        first(f) == f.docs[1].page_content
        joined(f) == JoinParagraphs(PageContents(f.docs))
        same(f) == input_data
    IN  CASE s.input_type = "file" ->
               { Env(FALSE, NoFetch, <<>>) } \cup
               IF ValidateFilePath(input_data, TRUE)
               THEN UNION { IF f.ok THEN { Env(TRUE, f, c) : c \in SplitDocuments(f.docs) }
                            ELSE { Env(TRUE, f, <<>>) } : f \in LoadResults(input_data) }
               ELSE { Env(TRUE, NoFetch, <<>>) }
          [] s.input_type = "text" ->
               with({NoFetch}, same, <<"direct_input">>)
          [] s.input_type = "url" ->
               with(ExtractResults(input_data), first, input_data)
          [] s.input_type = "search" ->
               IF web_searcher = "none" THEN { Env(TRUE, NoFetch, <<>>) }
               ELSE with(SearchResults(input_data, MaxResults), joined,
                         <<"search:">> \o input_data)
          [] OTHER -> { Env(TRUE, NoFetch, <<>>) }

InputTypes == {"file", "text", "url", "search", "audio"}
\* an input payload: a text, a query, a URL, or a path ("a" and "a.TXT")
Payloads == { <<"a">>, <<"a", ".TXT">> }
Difficulties == {"mixed"}

(***************************************************************************)
(* The run: graph.invoke executes the node pc names and writes what it     *)
(* returns to the channels; an exception that leaves a node leaves run.    *)
(***************************************************************************)
Init ==
    /\ PipelineIdle
    /\ web_searcher \in {"none", "ready"}
    /\ shared \in BOOLEAN
    /\ QuizIdle
    /\ ExtractIdle
    /\ KeyPointsIdle
    /\ TruncateIdle
    /\ ScanIdle
    /\ TwoRunsIdle

Run(input_type, input_data, num_questions, difficulty_level) ==
    /\ pc = "idle"
    /\ state' = InitialState(input_type, input_data, num_questions, difficulty_level)
    /\ node_out' = state'
    /\ pc' = EntryPoint
    /\ UNCHANGED <<trace, raised, written, quiz_given, llm, web_searcher,
                   shared, h_response, h_count, h_results, calls, extract_vars, keypoint_vars,
                   truncate_vars, scan_vars, tworun_vars>>

\* the keys of the state dict a node was given whose value differs in the
\* dict it returned
Changed(given, out) == { k \in DOMAIN given : out[k] # given[k] }

\* node has run and given r
Step(node, r) ==
    /\ trace' = Append(trace, node)
    /\ raised' = IF r.exc = None THEN raised
                 ELSE Append(raised, [node |-> node, exc |-> r.exc[1]])
    /\ written' = Append(written, Changed(state, r.state))
    /\ quiz_given' = IF node = "generate_quiz"
                     THEN Append(quiz_given, QuizContent(StartQuiz(state)))
                     ELSE quiz_given
    /\ IF r.escaped
       THEN pc' = "raised" /\ UNCHANGED <<state, node_out>>
       ELSE /\ node_out' = r.state
            /\ state' = Merge(state, r.state)
            /\ pc' = Edge(node)
    /\ UNCHANGED <<web_searcher, shared, h_response, h_count, h_results,
                   extract_vars, keypoint_vars,
                   truncate_vars, scan_vars, tworun_vars>>

Called(chain, reply) == llm' = Append(llm, [chain |-> chain, ok |-> reply.ok])

LoadContent ==
    /\ pc = "load_content"
    /\ \E env \in LoadEnvs(state) :
          LET r == LoadContentNode(state, env)
          IN  /\ Step("load_content", r)
              /\ calls' = calls \o r.calls
    /\ UNCHANGED llm

ProcessDocuments ==
    /\ pc = "process_documents"
    /\ Step("process_documents", ProcessDocumentsNode(state))
    /\ UNCHANGED <<llm, calls>>

GenerateSummary ==
    /\ pc = "generate_summary"
    /\ \E reply \in SummaryReplies :
          /\ Step("generate_summary", GenerateSummaryNode(state, reply))
          /\ Called("generate_summary", reply)
    /\ UNCHANGED calls

ExtractKeyPointsStep ==
    /\ pc = "extract_key_points"
    /\ \E reply \in KeyPointReplies :
          /\ Step("extract_key_points", ExtractKeyPointsNode(state, reply))
          /\ Called("extract_key_points", reply)
    /\ UNCHANGED calls

GenerateQuiz ==
    /\ pc = "generate_quiz"
    /\ \E reply \in QuizReplies :
          /\ Step("generate_quiz", GenerateQuizNode(state, reply))
          /\ Called("generate_quiz", reply)
    /\ UNCHANGED calls

Finalize ==
    /\ pc = "finalize"
    /\ Step("finalize", FinalizeNode(state))
    /\ UNCHANGED <<llm, calls>>

\* graph.invoke returned: run logs the session and returns final_state
Return ==
    /\ pc = "END"
    /\ pc' = "returned"
    /\ UNCHANGED <<state, node_out, trace, raised, written, quiz_given, llm, web_searcher,
                   shared, h_response, h_count, h_results, calls, extract_vars, keypoint_vars,
                   truncate_vars, scan_vars, tworun_vars>>

Start ==
    \E input_type \in InputTypes, input_data \in Payloads,
       num_questions \in 1..MaxQ, difficulty_level \in Difficulties :
        Run(input_type, input_data, num_questions, difficulty_level)

Next ==
    \/ Start
    \/ LoadContent
    \/ ProcessDocuments
    \/ GenerateSummary
    \/ ExtractKeyPointsStep
    \/ GenerateQuiz
    \/ Finalize
    \/ Return

Spec == Init /\ [][Next]_vars

\* a step of a run that was started: graph.invoke goes on to the next node,
\* every collaborator call returning or raising
RunStep ==
    \/ LoadContent
    \/ ProcessDocuments
    \/ GenerateSummary
    \/ ExtractKeyPointsStep
    \/ GenerateQuiz
    \/ Finalize
    \/ Return

FairSpec == Spec /\ WF_vars(RunStep)

(***************************************************************************)
(* Properties of quiz synthesis, checked under SpecQuiz.                   *)
(***************************************************************************)
\* the questions of all the candidates of a text that parse, in order of
\* appearance
ValidQuestions(text) == ParseMatches(FindAll(text))

\* the number of questions the loop of the parse recovered from a text
Recovered(text, n) == Len(ParseMatches(Take(FindAll(text), n)))

IsPlaceholder(q) ==
    /\ Len(q.question) = 3
    /\ q = FallbackQuestion(q.question[2])

\* C1: whatever text the generation call returns and whatever num_questions
\* in 1..MaxQ, quiz synthesis returns exactly num_questions questions.
C1_LengthInvariant ==
    \A i \in 1..Len(h_results) : Len(h_results[i]) = h_count

\* a call returned on a text that holds more candidates than num_questions,
\* valid and invalid ones, and num_questions is at least 2
C1_Witness ==
    /\ Len(h_results) >= 1
    /\ h_count >= 2
    /\ Len(FindAll(h_response)) > h_count
    /\ Len(ValidQuestions(h_response)) >= 1
    /\ Len(ValidQuestions(h_response)) < Len(FindAll(h_response))

\* C2: every question quiz synthesis returns has exactly 4 options.
C2_FourOptions ==
    \A i \in 1..Len(h_results) :
        \A j \in 1..Len(h_results[i]) : Len(h_results[i][j].options) = 4

\* C5: when the text holds k < num_questions candidates that parse, among
\* any garbage, the result is those k questions in order of appearance
\* followed by num_questions - k placeholders.
C5_PartialRecovery ==
    LET valid == ValidQuestions(h_response)
        k == Len(valid)
    IN  k < h_count =>
            \A i \in 1..Len(h_results) :
                h_results[i] = valid \o [j \in 1..(h_count - k) |-> FallbackQuestion(j)]

\* C6: an invalid candidate does not count and does not end the scan: when
\* the text holds at least num_questions candidates that parse, the result
\* is the first num_questions of them and holds no placeholder.
C6_ScanSkipsInvalid ==
    LET valid == ValidQuestions(h_response)
    IN  Len(valid) >= h_count =>
            \A i \in 1..Len(h_results) :
                /\ h_results[i] = Take(valid, h_count)
                /\ \A j \in 1..Len(h_results[i]) : ~IsPlaceholder(h_results[i][j])

C8_PlaceholderShape ==
    \A i \in 1..Len(h_results) :
        \A j \in 1..Len(h_results[i]) :
            j > Recovered(h_response, h_count) =>
                LET q == h_results[i][j]
                IN  /\ q.question # <<>>
                    /\ Len(q.options) = 4
                    /\ q.correct_answer = "D"
                    /\ q.options[4] = "Option D - All of the above"
                    /\ q.explanation # ""
                    /\ q.difficulty = "medium"

\* a call returned a list in which a parsed question is followed by padding
C8_Witness ==
    /\ Len(h_results) >= 1
    /\ Recovered(h_response, h_count) >= 1
    /\ Recovered(h_response, h_count) < h_count

(***************************************************************************)
(* Properties of the pipeline, checked under Spec and FairSpec.            *)
(***************************************************************************)
FailureSentinel == <<"Summary generation failed.">>

Stages ==
    << "load_content", "process_documents", "generate_summary",
       "extract_key_points", "generate_quiz", "finalize" >>

\* every generation call made so far raised
EveryGenerationFailed == \A i \in 1..Len(llm) : ~llm[i].ok

\* C3 as stated: when every generation call fails, the run returns with
\* error set, summary empty or the sentinel, no key points, and
\* num_questions placeholder questions.
C3_PlaceholdersOnFailure ==
    (pc = "returned" /\ EveryGenerationFailed) =>
        /\ state.error # None
        /\ state.summary \in {<<>>, FailureSentinel}
        /\ state.key_points = <<>>
        /\ Len(state.quiz_questions) = state.num_questions
        /\ \A j \in 1..Len(state.quiz_questions) : IsPlaceholder(state.quiz_questions[j])

\* C3 amended: when every generation call fails, nothing leaves the run, and
\* the run returns with error set, summary empty or the sentinel, no key
\* points and no quiz questions.
C3_GracefulDegradation ==
    EveryGenerationFailed =>
        /\ pc # "raised"
        /\ pc = "returned" =>
              /\ state.error # None
              /\ state.summary \in {<<>>, FailureSentinel}
              /\ state.key_points = <<>>
              /\ state.quiz_questions = <<>>

\* a run returned after the content was loaded and all three generation
\* calls raised
C3_Witness ==
    /\ pc = "returned"
    /\ Len(llm) = 3
    /\ EveryGenerationFailed
    /\ state.raw_content # <<>>
    /\ state.num_questions >= 2

OutputFields == {"summary", "key_points", "quiz_questions", "messages", "error"}

\* C4: whatever the input kind and whatever the collaborators do, no
\* exception leaves a node, and the state run returns has summary,
\* key_points, quiz_questions, messages and error.
C4_NoEscape ==
    /\ pc # "raised"
    /\ pc = "returned" => OutputFields \subseteq DOMAIN state

\* a run on an unsupported input kind returned after two or more nodes raised
C4_Witness ==
    /\ pc = "returned"
    /\ state.input_type \notin {"file", "text", "url", "search"}
    /\ Len(raised) >= 2

FailurePrefix(node) ==
    CASE node = "load_content" -> "[x] Error loading content: "
      [] node = "process_documents" -> "[x] Error processing documents: "
      [] node = "generate_summary" -> "[x] Error generating summary: "
      [] node = "extract_key_points" -> "[x] Error extracting key points: "
      [] node = "generate_quiz" -> "[x] Error generating quiz: "
      [] node = "finalize" -> "[x] Error finalizing: "

IsFailureMessage(m) ==
    m # <<>> /\ m[1] \in { FailurePrefix(Stages[i]) : i \in 1..Len(Stages) }

\* the step in which a node raised: error is the description of the
\* exception, the node added to the messages it was given its start message
\* and one failure message, and what the node produces has the value default
\* (summary for generate_summary, and the empty sequence for key_points and
\* quiz_questions)
FailureHandled(summary_default) ==
    Len(raised') > Len(raised) =>
        LET f == raised'[Len(raised')]
            before == state.messages
            after == node_out'.messages
            added == SubSeq(after, Len(before) + 1, Len(after))
        IN  /\ node_out'.error = Some(f.exc)
            /\ state'.error = Some(f.exc)
            /\ Len(after) = Len(before) + 2
            /\ SubSeq(after, 1, Len(before)) = before
            /\ Cardinality({ i \in 1..Len(added) : IsFailureMessage(added[i]) }) = 1
            /\ added[2] = <<FailurePrefix(f.node)>> \o f.exc
            /\ f.node = "generate_summary" => state'.summary = summary_default
            /\ f.node = "extract_key_points" => state'.key_points = <<>>
            /\ f.node = "generate_quiz" => state'.quiz_questions = <<>>

\* C9 as stated: a node whose work raises sets error to the description of
\* the exception, appends exactly one failure message and substitutes the
\* empty string for summary, the empty sequence for key_points and for
\* quiz_questions.
C9_EmptyDefaults == [][FailureHandled(<<>>)]_vars

\* C9 amended: the same, the default substituted for summary being the
\* sentinel "Summary generation failed.".
C9_StageFailure == [][FailureHandled(FailureSentinel)]_vars

\* generate_summary has just raised, after load_content had raised too
C9_Witness ==
    /\ pc = "extract_key_points"
    /\ Len(raised) = 2
    /\ raised[2].node = "generate_summary"

IsPrefix(a, b) == Len(a) <= Len(b) /\ SubSeq(b, 1, Len(a)) = a

\* C10: every run executes the six nodes in the order of the graph, each
\* once, whichever of them fail, the completion message of finalize is the
\* last message, and a started run returns.
C10_StageOrder ==
    /\ [](/\ IsPrefix(trace, Stages)
          /\ pc \in {"END", "returned"} =>
                /\ trace = Stages
                /\ state.messages[Len(state.messages)] =
                       <<"[ok] Study assistant processing complete!">>)
    /\ [](pc = EntryPoint => <>(pc = "returned"))

\* a run returned in which three or more nodes raised
C10_Witness ==
    /\ pc = "returned"
    /\ Len(raised) >= 3

(***************************************************************************)
(* Properties of URL extraction, checked under SpecExtract.                *)
(***************************************************************************)
\* the calls of fn an extraction made
CallsOf(x, fn) == SelectSeq(x.calls, LAMBDA c : c.fn = fn)

\* C11: an extractor that has no firecrawl key, or whose firecrawl package
\* does not import, never calls scrape_url: every extraction starts with the
\* fallback's get_page_content and returns what it returned, or raises what
\* it raised.
C11_NoPrimaryWhenUnavailable ==
    (url_extractor.firecrawl_api_key = None \/ ~installed) =>
        \A i \in 1..Len(extractions) :
            LET x == extractions[i]
                f == x.calls[1]
            IN  /\ CallsOf(x, "scrape_url") = <<>>
                /\ f.fn = "get_page_content"
                /\ x.ok = f.ok
                /\ x.ok => /\ x.doc.page_content = f.value[1]
                           /\ x.doc.metadata.extractor = "tavily"
                /\ ~x.ok => x.exc = f.value

\* an extractor that has a key but no firecrawl package returned a page
C11_Witness ==
    /\ url_extractor.firecrawl_api_key # None
    /\ ~installed
    /\ \E i \in 1..Len(extractions) :
          extractions[i].ok /\ extractions[i].doc.page_content # <<>>

\* C12: when scrape_url raises, get_page_content is called next; the
\* extraction returns the document made of what it returned, or raises what
\* it raised, and never what scrape_url raised.
C12_FallbackAfterPrimaryRaises ==
    \A i \in 1..Len(extractions) :
        LET x == extractions[i]
        IN  (x.calls[1].fn = "scrape_url" /\ ~x.calls[1].ok) =>
                LET p == x.calls[1]
                    f == x.calls[2]
                IN  /\ f.fn = "get_page_content"
                    /\ f.arg = p.arg
                    /\ x.ok = f.ok
                    /\ x.ok => x.doc = TavilyDocument(p.arg[1], f.value[1])
                    /\ ~x.ok => x.exc = f.value
                    /\ x.exc # p.value

\* scrape_url raised in two extractions: the fallback returned a page in the
\* first, and its request raised in the second
C12_Witness ==
    /\ Len(extractions) = 2
    /\ \A i \in 1..2 : /\ extractions[i].calls[1].fn = "scrape_url"
                       /\ ~extractions[i].calls[1].ok
    /\ extractions[1].ok
    /\ extractions[1].doc.page_content # <<>>
    /\ ~extractions[2].ok
    /\ Len(extractions[2].calls) = 3

\* C13: when scrape_url returns a result with no text, get_page_content is
\* called next.
C13_EmptyPrimaryFallsBack ==
    \A i \in 1..Len(extractions) :
        LET x == extractions[i]
        IN  (/\ x.calls[1].fn = "scrape_url"
             /\ x.calls[1].ok
             /\ x.calls[1].value = << <<>> >>) =>
                /\ Len(x.calls) >= 2
                /\ x.calls[2].fn = "get_page_content"

(***************************************************************************)
(* Properties of load_content_node, checked under Spec.  raw_content and   *)
(* study_materials are written by no later node, so they are looked at in  *)
(* every state from the end of load_content_node on.                       *)
(***************************************************************************)
Acquired == trace # <<>>

\* the try block of load_content_node raised e
AcquisitionFailedWith(e) ==
    /\ raised # <<>>
    /\ raised[1] = [node |-> "load_content", exc |-> e]
    /\ state.messages[2] = <<"[x] Error loading content: ">> \o e
    /\ pc = "process_documents" => state.error = Some(e)

AcquisitionSucceeded ==
    /\ Acquired
    /\ \A i \in 1..Len(raised) : raised[i].node # "load_content"

NothingAcquired ==
    /\ state.raw_content = <<>>
    /\ state.study_materials = <<>>

CallsTo(fn) == SelectSeq(calls, LAMBDA c : c.fn = fn)

\* C14: for an input type other than file, text, url and search,
\* load_content_node records the error "Unknown input type: ...", calls no
\* collaborator, and leaves raw_content and study_materials empty.
C14_UnknownKindFails ==
    (Acquired /\ state.input_type \notin {"file", "text", "url", "search"}) =>
        /\ AcquisitionFailedWith(<<"Unknown input type: ", state.input_type>>)
        /\ calls = <<>>
        /\ NothingAcquired

\* load_content_node has just run on the input type "audio"
C14_Witness ==
    /\ pc = "process_documents"
    /\ state.input_type = "audio"
    /\ state.error # None

\* C15: for a file, validate_file_path is called first; it answers no for a
\* path that does not exist and for a path whose extension is not .pdf,
\* .docx, .txt or .md, and then load_document is never called and
\* load_content_node fails with "Invalid file: ...".
C15_FileValidatedFirst ==
    (Acquired /\ state.input_type = "file") =>
        LET path == state.input_data
            ext == Lower(Suffix(path))
        IN  /\ Len(calls) >= 2
            /\ calls[1].fn = "validate_file_path"
            /\ calls[1].arg = <<path>>
            /\ calls[2].fn = "path.exists"
            /\ ~calls[2].ok => ~calls[1].ok
            /\ ext \notin {".pdf", ".docx", ".txt", ".md"} => ~calls[1].ok
            /\ ~calls[1].ok =>
                  /\ CallsTo("load_document") = <<>>
                  /\ CallsTo("split_documents") = <<>>
                  /\ AcquisitionFailedWith(<<"Invalid file: ">> \o path)
                  /\ NothingAcquired

\* a run on a path with a supported extension that does not exist has
\* returned
C15_Witness ==
    /\ pc = "returned"
    /\ state.input_type = "file"
    /\ Lower(Suffix(state.input_data)) = ".txt"
    /\ ~calls[2].ok
    /\ Len(raised) >= 1

\* C16: for a search, an agent without a Tavily key fails with "Web search
\* not available (Tavily API key missing)" and calls nothing; an agent with
\* a key calls search exactly once, with the query and max_results = 3.
C16_SearchNeedsCredential ==
    (Acquired /\ state.input_type = "search") =>
        /\ web_searcher = "none" =>
              /\ calls = <<>>
              /\ AcquisitionFailedWith(
                     <<"Web search not available (Tavily API key missing)">>)
              /\ NothingAcquired
        /\ web_searcher # "none" =>
              /\ Len(CallsTo("search")) = 1
              /\ calls[1].fn = "search"
              /\ calls[1].arg = <<state.input_data, 3>>
              /\ Len(calls[1].value) <= 3

\* an agent with a key has searched and got two results
C16_Witness ==
    /\ Acquired
    /\ state.input_type = "search"
    /\ web_searcher # "none"
    /\ calls[1].ok
    /\ Len(calls[1].value) = 2

\* C17: after a load that did not fail, every study material has the source
\* of its input type: the URL for url, "search:" and the query for search
\* (with the query as topic), "direct_input" for text; for url and text the
\* topic is None.
C17_Provenance ==
    AcquisitionSucceeded =>
        \A i \in 1..Len(state.study_materials) :
            LET m == state.study_materials[i]
            IN  /\ state.input_type = "url" =>
                      m.source = state.input_data /\ m.topic = None
                /\ state.input_type = "search" =>
                      /\ m.source = <<"search:">> \o state.input_data
                      /\ m.topic = Some(state.input_data)
                /\ state.input_type = "text" =>
                      m.source = <<"direct_input">> /\ m.topic = None

\* a search was loaded into two study materials
C17_Witness ==
    /\ AcquisitionSucceeded
    /\ state.input_type = "search"
    /\ Len(state.study_materials) = 2

\* C18: for a text, raw_content is input_data, and the contents of the study
\* materials are the chunks the splitter returned, in its order.
C18_TextVerbatim ==
    (Acquired /\ state.input_type = "text") =>
        /\ state.raw_content = state.input_data
        /\ Len(calls) = 1
        /\ calls[1].fn = "split_documents"
        /\ calls[1].arg = <<state.input_data>>
        /\ [i \in 1..Len(state.study_materials) |-> state.study_materials[i].content]
               = calls[1].value

\* a text of two tokens was split into two chunks
C18_Witness ==
    /\ Acquired
    /\ state.input_type = "text"
    /\ Len(state.input_data) = 2
    /\ Len(state.study_materials) = 2
    /\ state.study_materials[1].content # state.study_materials[2].content

(***************************************************************************)
(* Properties of the two analysis nodes, checked under Spec.               *)
(***************************************************************************)
\* C19: once generate_summary and extract_key_points have run, if either
\* generation call raised, summary is the sentinel and key_points is empty.
C19_ResetTogether ==
    (/\ Len(trace) >= 4
     /\ \E i \in 1..Len(llm) :
           llm[i].chain \in {"generate_summary", "extract_key_points"} /\ ~llm[i].ok) =>
        /\ state.summary = FailureSentinel
        /\ state.key_points = <<>>

(***************************************************************************)
(* Properties of key-point parsing, checked under SpecKeyPoints.           *)
(***************************************************************************)
\* a line qualifies when, trimmed, it begins with a digit, a dash or a bullet
Qualifies(line) ==
    LET l == Strip(line)
    IN  l # <<>> /\ l[1] \in Digits \cup {"-", "*"}

\* what is left of a line after its leading run of enumeration characters
Remainder(line) ==
    LET l == Strip(line)
        text == { i \in 1..Len(l) : l[i] \notin EnumerationChars }
        first == IF text = {} THEN Len(l) + 1
                 ELSE CHOOSE i \in text : \A j \in text : i <= j
    IN  Strip(SubSeq(l, first, Len(l)))

Remainders(lines) == [j \in 1..Len(lines) |-> Remainder(lines[j])]

\* C20 as stated: the result has one key point for each qualifying line, in
\* order (on a text that has no more qualifying lines than num_points).
C20_KeepsEveryQualifyingLine ==
    LET q == SelectSeq(Split(kp_text, "\n"), Qualifies)
    IN  Len(q) <= kp_num =>
            \A i \in 1..Len(kp_results) : kp_results[i] = Remainders(q)

\* C20 amended: the result is, in order, what is left of the first
\* num_points qualifying lines that are not made of enumeration characters
\* only; for the list "Intro / 1. A / - B / * C / random line" and
\* num_points >= 3 it is A, B, C.
C20_KeyPointFilter ==
    LET kept == SelectSeq(Split(kp_text, "\n"),
                          LAMBDA l : Qualifies(l) /\ Remainder(l) # <<>>)
    IN  \A i \in 1..Len(kp_results) :
            /\ kp_results[i] = Take(Remainders(kept), kp_num)
            /\ (kp_text = ExampleText /\ kp_num >= 3) =>
                   kp_results[i] = << <<"A">>, <<"B">>, <<"C">> >>

\* a text was parsed in which a line of enumeration characters only stands
\* before a line that gives a key point
C20_Witness ==
    /\ kp_results # <<>>
    /\ kp_results[1] # <<>>
    /\ LET lines == Split(kp_text, "\n")
       IN  /\ Len(lines) >= 2
           /\ Qualifies(lines[1])
           /\ Remainder(lines[1]) = <<>>

(***************************************************************************)
(* Properties of error and messages over a run, checked under Spec.        *)
(***************************************************************************)
\* the failure message of a node that raised
FailureMessageOf(f) == <<FailurePrefix(f.node)>> \o f.exc

\* the place of the first entry of seq that is m
FirstIndex(seq, m) ==
    CHOOSE i \in 1..Len(seq) : seq[i] = m /\ \A j \in 1..(i - 1) : seq[j] # m

StartMessage(node, s) ==
    CASE node = "load_content" -> <<"Loading content from ", s.input_type, "...">>
      [] node = "process_documents" -> <<"Processing documents...">>
      [] node = "generate_summary" -> <<"Generating summary...">>
      [] node = "extract_key_points" -> <<"Extracting key points...">>
      [] node = "generate_quiz" -> <<"Generating quiz questions...">>
      [] node = "finalize" -> <<"Finalizing results...">>

SuccessPrefix(node) ==
    CASE node = "load_content" -> "[ok] Content loaded: "
      [] node = "process_documents" -> "[ok] Processed into "
      [] node = "generate_summary" -> "[ok] Summary generated ("
      [] node = "extract_key_points" -> "[ok] Extracted "
      [] node = "generate_quiz" -> "[ok] Generated "
      [] node = "finalize" -> "[ok] Study assistant processing complete!"

\* a step of a run keeps the messages it found as a prefix; a node adds to
\* the messages it was given its start message and then one message, of its
\* success or of its failure
AppendsOnly ==
    /\ pc \notin {"idle", "raised"} => IsPrefix(state.messages, state'.messages)
    /\ trace' # trace =>
          LET node == trace'[Len(trace')]
              given == state.messages
              out == node_out'.messages
              n == Len(given)
          IN  /\ Len(out) = n + 2
              /\ IsPrefix(given, out)
              /\ out[n + 1] = StartMessage(node, state)
              /\ out[n + 2][1] \in {SuccessPrefix(node), FailurePrefix(node)}

\* C22: messages is append-only: in every step of a run the messages before
\* the step are a prefix of the messages after it, and every node appends
\* its start message before its success or failure message.
C22_AppendOnly == [][AppendsOnly]_vars

\* the run is at its third node and its messages begin with those of the
\* first node
C22_Witness ==
    /\ pc = "generate_summary"
    /\ Len(state.messages) >= 4
    /\ state.messages[1] = StartMessage("load_content", state)

(***************************************************************************)
(* Properties of the results of a run, checked under Spec.                 *)
(***************************************************************************)
\* the generation call of chain returned
GenerationReturned(chain) ==
    \E i \in 1..Len(llm) : llm[i].chain = chain /\ llm[i].ok

\* C23: when the quiz generation call returned, the quiz_questions of the
\* state run returns are the questions generate_quiz_node stored (the list
\* finalize_node was given), num_questions of them.
C23_QuizQuestionsExact ==
    (pc = "returned" /\ GenerationReturned("generate_quiz")) =>
        /\ Len(state.quiz_questions) = state.num_questions
        /\ state.quiz_questions = node_out.quiz_questions

\* C24: when load_content_node raised, the other five nodes still run, and
\* the state run returns has a summary that is empty or the sentinel, no key
\* points, and only placeholder questions.
C24_DegradedAfterAcquisitionFailure ==
    (pc = "returned" /\ raised # <<>> /\ raised[1].node = "load_content") =>
        /\ trace = Stages
        /\ state.summary \in {<<>>, FailureSentinel}
        /\ state.key_points = <<>>
        /\ \A j \in 1..Len(state.quiz_questions) : IsPlaceholder(state.quiz_questions[j])

\* node has run to its end in the run so far
Finished(node) == \E i \in 1..Len(trace) : trace[i] = node

\* the generation call of chain was made and has returned or raised
Requested(chain) == \E i \in 1..Len(llm) : llm[i].chain = chain

\* the channels after first and then second ran on s with the replies given
SummaryThenKeyPoints(s, a, b) ==
    LET s1 == Merge(s, GenerateSummaryNode(s, a).state)
    IN  Merge(s1, ExtractKeyPointsNode(s1, b).state)

KeyPointsThenSummary(s, a, b) ==
    LET s1 == Merge(s, ExtractKeyPointsNode(s, b).state)
    IN  Merge(s1, GenerateSummaryNode(s1, a).state)

\* C25: quiz synthesis starts only after both the summary request and the
\* key-point request have completed or failed, and the final summary, key
\* points and quiz questions are the same whichever of the two analysis
\* tasks finishes first.
C25_JoinedBeforeQuiz ==
    /\ (pc = "generate_quiz" \/ Finished("generate_quiz") \/ Requested("generate_quiz")) =>
          /\ Finished("generate_summary") /\ Requested("generate_summary")
          /\ Finished("extract_key_points") /\ Requested("extract_key_points")
    /\ pc = "generate_summary" =>
          \A a \in SummaryReplies, b \in KeyPointReplies :
              LET sk == SummaryThenKeyPoints(state, a, b)
                  ks == KeyPointsThenSummary(state, a, b)
              IN  /\ sk.summary = ks.summary
                  /\ sk.key_points = ks.key_points
                  /\ \A q \in QuizReplies :
                        GenerateQuizNode(sk, q).state.quiz_questions
                            = GenerateQuizNode(ks, q).state.quiz_questions

C25_Witness ==
    /\ pc = "generate_quiz"
    /\ state.summary = FailureSentinel
    /\ state.key_points # <<>>
    /\ Len(llm) = 2 /\ ~llm[1].ok /\ llm[2].ok

\* the keys the run of node changed, for a node that has run
WrittenBy(node) ==
    written[CHOOSE i \in 1..Len(trace) : trace[i] = node]

AnalysisDone == Finished("generate_summary") /\ Finished("extract_key_points")

\* C26 as stated: no state field is written by both analysis sub-tasks.
C26_NoFieldWrittenByBoth ==
    AnalysisDone =>
        WrittenBy("generate_summary") \cap WrittenBy("extract_key_points") = {}

\* C26: the summary sub-task writes summary and never key_points, the
\* key-point sub-task writes key_points and never summary, and the only
\* other keys either of them writes are current_step, messages and, when it
\* fails, error; a failing sub-task still writes its own result key.
C26_DisjointResultFields ==
    /\ Finished("generate_summary") =>
          /\ WrittenBy("generate_summary")
                \subseteq {"summary", "current_step", "messages", "error"}
          /\ {"current_step", "messages"} \subseteq WrittenBy("generate_summary")
    /\ Finished("extract_key_points") =>
          /\ WrittenBy("extract_key_points")
                \subseteq {"key_points", "current_step", "messages", "error"}
          /\ {"current_step", "messages"} \subseteq WrittenBy("extract_key_points")
    /\ \A i \in 1..Len(raised) :
          /\ raised[i].node = "generate_summary" =>
                "summary" \in WrittenBy("generate_summary")
          /\ raised[i].node = "extract_key_points" => state.key_points = <<>>

\* both analysis sub-tasks failed with different errors: each wrote error
C26_Witness ==
    /\ AnalysisDone
    /\ "error" \in WrittenBy("generate_summary")
    /\ "error" \in WrittenBy("extract_key_points")
    /\ "summary" \in WrittenBy("generate_summary")

\* every key point the reply text holds: what extract_key_points returns
\* when it is asked for as many points as the text has tokens
AllKeyPoints(text) == ExtractKeyPoints(<<>>, Len(text) + 1, Reply(text)).value

LimitOf(request) == IF request = "quiz" THEN 3000 ELSE 8000

\* C28: a content longer than the limit of the request (8000 characters for
\* a summary or key-point request, 3000 for a quiz request) is sent as its
\* first limit characters followed by "..."; a content of at most limit
\* characters is sent unchanged.
C28_Truncation ==
    \A i \in 1..Len(submissions) :
        LET c == submissions[i].content
            sent == submissions[i].sent
            L == LimitOf(submissions[i].request)
        IN  IF Len(c) > L
            THEN /\ Len(sent) = L + 1
                 /\ \A k \in 1..L : sent[k] = c[k]
                 /\ sent[L + 1] = "..."
            ELSE sent = c

\* a content between the two limits went into all three requests: the quiz
\* request cut it, the other two did not
C28_Witness ==
    /\ Len(submissions) = 3
    /\ Len(tr_content) > 3000 /\ Len(tr_content) < 8000
    /\ \E i \in 1..3 : submissions[i].request = "quiz"
                       /\ Len(submissions[i].sent) = 3001
    /\ \E i \in 1..3 : submissions[i].request = "summary"
                       /\ submissions[i].sent = tr_content

\* the step in which generate_quiz_node ran and its generation call returned
QuizGenerated ==
    /\ trace' = Append(trace, "generate_quiz")
    /\ llm'[Len(llm')] = [chain |-> "generate_quiz", ok |-> TRUE]

ShortfallHidden ==
    QuizGenerated =>
        LET out == node_out'
            n == Len(state.messages)
        IN  /\ Len(out.quiz_questions) = state.num_questions
            /\ out.error = state.error
            /\ state'.error = state.error
            /\ raised' = raised
            /\ Len(out.messages) = n + 2
            /\ out.messages[n + 1] = <<"Generating quiz questions...">>
            /\ out.messages[n + 2] =
                  <<"[ok] Generated ", state.num_questions, " quiz questions">>
            /\ \A k \in 1..Len(out.messages) :
                  out.messages[k][1] # "[x] Error generating quiz: "

\* C29: when the generation call returns, the quiz stage stores exactly
\* num_questions questions whatever number of them was recovered, appends
\* its success message and no failure message, and leaves error as it was.
C29_ShortfallNotAFailure == [][ShortfallHidden]_vars

\* the quiz stage has padded: the list it stored holds a placeholder, the
\* generation call returned, and no stage has failed
C29_Witness ==
    /\ pc = "finalize"
    /\ GenerationReturned("generate_quiz")
    /\ \E j \in 1..Len(node_out.quiz_questions) : IsPlaceholder(node_out.quiz_questions[j])
    /\ Len(node_out.quiz_questions) = state.num_questions
    /\ state.error = None

\* scrape_url was called in the extraction e and returned
PrimaryReturned(e) ==
    \E k \in 1..Len(e.calls) : e.calls[k].fn = "scrape_url" /\ e.calls[k].ok

\* get_page_content was called in the extraction e and returned
FallbackReturned(e) ==
    \E k \in 1..Len(e.calls) : e.calls[k].fn = "get_page_content" /\ e.calls[k].ok

\* C30: the extractor entry of the metadata of a document extract_from_url
\* returns names the extractor that produced its content: "firecrawl"
\* exactly when scrape_url was called and returned, and "tavily", with the
\* content get_page_content returned, in every other successful extraction.
C30_ExtractorLabel ==
    \A i \in 1..Len(extractions) :
        LET e == extractions[i]
        IN  e.ok =>
              /\ e.doc.metadata.extractor \in {"firecrawl", "tavily"}
              /\ e.doc.metadata.extractor = "firecrawl" <=> PrimaryReturned(e)
              /\ e.doc.metadata.extractor = "firecrawl" =>
                    /\ <<e.doc.page_content>> = e.calls[1].value
                    /\ ~\E k \in 1..Len(e.calls) : e.calls[k].fn = "get_page_content"
              /\ e.doc.metadata.extractor = "tavily" =>
                    /\ FallbackReturned(e)
                    /\ \E k \in 1..Len(e.calls) :
                          /\ e.calls[k].fn = "get_page_content"
                          /\ e.calls[k].value = <<e.doc.page_content>>

\* one extractor gave a firecrawl document, and a tavily document after
\* scrape_url had raised
C30_Witness ==
    /\ Len(extractions) = 2
    /\ extractions[1].ok /\ extractions[1].doc.metadata.extractor = "firecrawl"
    /\ extractions[2].ok /\ extractions[2].doc.metadata.extractor = "tavily"
    /\ extractions[2].calls[1].fn = "scrape_url" /\ ~extractions[2].calls[1].ok

(***************************************************************************)
(* Frame properties of the pipeline, checked under Spec.                   *)
(***************************************************************************)
\* the keys given hold the same value in the channels and in the dict the
\* node returned after the step as in the channels before it
Kept(keys) ==
    \A k \in keys : state'[k] = state[k] /\ node_out'[k] = state[k]

\* the names of the six nodes
Nodes == { Stages[i] : i \in 1..Len(Stages) }

InputFrame ==
    pc \in Nodes =>
        /\ Kept({"input_type", "input_data"})
        /\ pc # "load_content" => Kept({"raw_content", "study_materials"})

\* C31: no stage changes input_type or input_data, and no stage other than
\* load_content changes raw_content or study_materials, so the final state
\* holds them as they were right after acquisition.
C31_InputFrame == [][InputFrame]_vars

\* a run returned that had acquired content
C31_Witness ==
    /\ pc = "returned"
    /\ trace = Stages
    /\ state.raw_content # <<>>
    /\ state.study_materials # <<>>
    /\ state.input_data # <<>>

ResultFields ==
    {"summary", "key_points", "quiz_questions", "raw_content", "study_materials", "error"}

\* the step of a node that transforms nothing: the run's state holds every
\* result field after it as before it
NoTransformation ==
    pc \in {"finalize", "process_documents"} =>
        \A k \in ResultFields : state'[k] = state[k]

\* C32: finalize only sets current_step and appends its messages: summary,
\* key_points, quiz_questions, raw_content, study_materials and error are in
\* the run's state after it exactly as generate_quiz left them; the same
\* holds for process_documents and the state load_content left.
C32_NoTransformation == [][NoTransformation]_vars

(***************************************************************************)
(* Properties of the candidate scanner, checked under SpecScan.            *)
(***************************************************************************)
\* the index of the brace that closes the one opened before j, depth braces
\* being open at j; 0 when the text ends first
RECURSIVE CloseFrom(_, _, _)
CloseFrom(t, j, depth) ==
    IF j > Len(t) THEN 0
    ELSE IF t[j] = "{" THEN CloseFrom(t, j + 1, depth + 1)
    ELSE IF t[j] = "}" THEN (IF depth = 1 THEN j ELSE CloseFrom(t, j + 1, depth - 1))
    ELSE CloseFrom(t, j + 1, depth)

\* the index of the brace that closes the brace at i
Close(t, i) == CloseFrom(t, i + 1, 1)

\* an object starts at i: an opening brace that is closed
IsObject(t, i) == t[i] = "{" /\ Close(t, i) # 0

ObjectAt(t, i) == SubSeq(t, i, Close(t, i))

\* the number of braces open after t[i..k]
OpenAfter(t, i, k) ==
    Cardinality({ m \in i..k : t[m] = "{" }) - Cardinality({ m \in i..k : t[m] = "}" })

\* the levels of braces nested in the object at i
NestedLevels(t, i) ==
    CHOOSE d \in 0..Len(t) :
        /\ \E k \in i..Close(t, i) : OpenAfter(t, i, k) = d + 1
        /\ \A k \in i..Close(t, i) : OpenAfter(t, i, k) <= d + 1

\* the object at i lies inside another object
Inside(t, i) ==
    \E o \in 1..(i - 1) : IsObject(t, o) /\ Close(t, o) > Close(t, i)

\* the objects of at most one nested level met from i on, left to right,
\* the scan going on behind each
RECURSIVE ObjectsFrom(_, _)
ObjectsFrom(t, i) ==
    IF i > Len(t) THEN <<>>
    ELSE IF IsObject(t, i) /\ NestedLevels(t, i) <= 1
    THEN <<ObjectAt(t, i)>> \o ObjectsFrom(t, Close(t, i) + 1)
    ELSE ObjectsFrom(t, i + 1)

\* C33: the scanner returns, left to right and without overlap, the
\* brace-balanced substrings of at most one nested level: every object of at
\* most one nested level that is not inside another object is one of the
\* candidates, whole, and an object nested more deeply never is.
C33_ScannerCandidates ==
    \A n \in 1..Len(sc_matches) :
        LET found == sc_matches[n]
        IN  /\ found = ObjectsFrom(sc_text, 1)
            /\ \A i \in 1..Len(sc_text) :
                  IsObject(sc_text, i) =>
                    /\ (NestedLevels(sc_text, i) <= 1 /\ ~Inside(sc_text, i)) =>
                          \E k \in 1..Len(found) : found[k] = ObjectAt(sc_text, i)
                    /\ NestedLevels(sc_text, i) > 1 =>
                          \A k \in 1..Len(found) : found[k] # ObjectAt(sc_text, i)

\* a text was scanned that holds an object of two nested levels, and the
\* object of one nested level inside it was returned
C33_Witness ==
    /\ sc_matches # <<>>
    /\ Len(sc_text) >= 6
    /\ IsObject(sc_text, 1) /\ NestedLevels(sc_text, 1) = 2
    /\ IsObject(sc_text, 2) /\ NestedLevels(sc_text, 2) = 1
    /\ sc_matches[1] = <<ObjectAt(sc_text, 2)>>

(***************************************************************************)
(* Properties of interleaved runs, checked under SpecTwoRuns.              *)
(***************************************************************************)
\* caller r has built its state
HasState(r) == callers[r].pc \in {"invoke", "end_run", "returned"}

\* C34: runs on one agent share no mutable state: what a run holds, the
\* MLflow run id in its state included, is what it would hold had it run
\* alone, whatever the other run does in between.
C34_NoSharedState ==
    \A r \in Callers :
        /\ callers[r].pc \in {"initialize", "invoke", "end_run", "returned"} =>
              callers[r].run_id = callers[r].run
        /\ HasState(r) => callers[r].state.mlflow_run_id = callers[r].run

ErrorKept ==
    /\ (pc = "idle" /\ pc' # "idle") => state'.error = None
    /\ (pc \in Nodes /\ state.error # None) =>
          state'.error # None /\ node_out'.error # None
    /\ (pc' = "returned" /\ state'.error = None) => raised' = <<>>

\* C35: error starts as None and, once a stage has set it, no later stage
\* resets it to None, whether that stage succeeds or fails; a run that
\* returns with error None is a run in which no stage failed.
C35_ErrorMonotone == [][ErrorKept]_vars

\* a run returned in which only load_content failed: the five stages that
\* succeeded after it left error set
C35_Witness ==
    /\ pc = "returned"
    /\ Len(raised) = 1
    /\ raised[1].node = "load_content"
    /\ state.error = Some(raised[1].exc)

\* C36: the messages of a completed run are the six start messages, each
\* followed by the success or the failure message of its stage: exactly 12
\* entries, none of them a second time because of the merge.
C36_TwelveMessages ==
    pc = "returned" =>
        /\ Len(state.messages) = 12
        /\ \A i \in 1..Len(Stages) :
              /\ 2 * i <= Len(state.messages)
              /\ state.messages[2 * i - 1] = StartMessage(Stages[i], state)
              /\ state.messages[2 * i][1] \in {SuccessPrefix(Stages[i]), FailurePrefix(Stages[i])}
        /\ \A i, j \in 1..Len(state.messages) :
              (i # j /\ state.messages[i] = StartMessage("load_content", state)) =>
                  state.messages[j] # state.messages[i]

\* the line "3. 4 E": an item whose own text begins with a digit
OwnDigitLine == <<"3", ".", " ", "4", " ", "E">>

\* the lines of the text that give a key point
Yielding(text) ==
    { j \in 1..Len(Split(text, "\n")) :
        /\ Qualifies(Split(text, "\n")[j])
        /\ Remainder(Split(text, "\n")[j]) # <<>> }

\* C37: no key point is empty: each is a qualifying line without its whole
\* leading run of digits, '.', '-', bullets, ')' and spaces, digits of the
\* point's own text included; a line made of such characters only gives no
\* key point and does not count toward num_points.
C37_NoEmptyKeyPoint ==
    \A i \in 1..Len(kp_results) :
        LET points == kp_results[i]
            lines == Split(kp_text, "\n")
        IN  /\ \A k \in 1..Len(points) :
                  /\ points[k] # <<>>
                  /\ \E j \in Yielding(kp_text) : points[k] = Remainder(lines[j])
            /\ Len(points) = Min(kp_num, Cardinality(Yielding(kp_text)))
            /\ (Yielding(kp_text) # {} /\
                lines[CHOOSE j \in Yielding(kp_text) :
                          \A m \in Yielding(kp_text) : j <= m] = OwnDigitLine) =>
                   points[1] = <<"E">>

\* one key point was asked for, and the text has the line "1." before the
\* line "3. 4 E": the key point is "E"
C37_Witness ==
    /\ kp_results # <<>>
    /\ kp_num = 1
    /\ Split(kp_text, "\n") = << <<"1", ".">>, OwnDigitLine >>
    /\ kp_results[1] = << <<"E">> >>

\* C38: the content generate_quiz_node passes to generate_quiz_questions is
\* the summary field as it stands, the empty string and the failure sentinel
\* included, never raw_content: summary is a key of the state from
\* initial_state on.
C38_QuizContentIsSummary ==
    /\ pc # "idle" => "summary" \in DOMAIN state
    /\ Len(quiz_given) <= 1
    /\ (Finished("generate_quiz") \/ quiz_given # <<>>) =>
          /\ Len(quiz_given) = 1
          /\ quiz_given[1] = state.summary
          /\ state.summary # Take(state.raw_content, QuizContentLimit) =>
                quiz_given[1] # Take(state.raw_content, QuizContentLimit)

\* the quiz stage ran after the summary had failed, on content that was
\* acquired: it was given the sentinel
C38_Witness ==
    /\ Finished("generate_quiz")
    /\ quiz_given = <<FailureSentinel>>
    /\ state.raw_content # <<>>

\* c is a run of consecutive tokens of text
IsSlice(c, text) ==
    \E i \in 1..(Len(text) + 1) :
        i + Len(c) - 1 <= Len(text) /\ SubSeq(text, i, i + Len(c) - 1) = c

\* load_content_node failed
AcquisitionFailed == raised # <<>> /\ raised[1].node = "load_content"

\* C39: after load_content either it succeeded, raw_content and
\* study_materials are both written from the acquired text and the success
\* message is there, or it failed, error was set and raw_content and
\* study_materials are both still empty; no failure leaves one of the two
\* written without the other.
C39_AllOrNothing ==
    Acquired =>
        IF AcquisitionFailed
        THEN /\ NothingAcquired
             /\ WrittenBy("load_content") \cap {"raw_content", "study_materials"} = {}
             /\ "error" \in WrittenBy("load_content")
             /\ state.error # None
             /\ state.messages[2] = FailureMessageOf(raised[1])
        ELSE /\ \A i \in 1..Len(state.study_materials) :
                   IsSlice(state.study_materials[i].content, state.raw_content)
             /\ "error" \notin WrittenBy("load_content")
             /\ state.messages[2] =
                   <<"[ok] Content loaded: ", Len(state.raw_content), " characters">>

\* load_content has just failed after a collaborator it had called raised
C39_Witness ==
    /\ pc = "process_documents"
    /\ AcquisitionFailed
    /\ calls # <<>> /\ ~calls[Len(calls)].ok
    /\ NothingAcquired
    /\ state.error = Some(raised[1].exc)

====
